---------------------------- MODULE Spec2Model ----------------------------
(***************************************************************************)
(* A model of the gemini_python recipe system: the configuration resolver  *)
(* (astrodata/gdpgutil.py), the type classifications                       *)
(* (ADCONFIG_Gemini/classifications) and the GEMINI primitive sets         *)
(* (RECIPES_Gemini/primitives/primitives_GEMINI.py) driven by a reduction  *)
(* context.                                                                *)
(***************************************************************************)
EXTENDS Integers, Sequences, FiniteSets, TLC

(***************************************************************************)
(* Bounds                                                                  *)
(***************************************************************************)
\* largest number of keys of a configuration index
MaxKeys == 3

(***************************************************************************)
(* The type forest                                                         *)
(***************************************************************************)
NoParent == "none"

Types == {"GEMINI", "GMOS", "GMOS_IMAGE", "GMOS_IMAGE_FLAT", "SIDEREAL"}

\* DataClassification.parent as the type files declare it
declared_parent ==
  [t \in {"GMOS_IMAGE_FLAT", "SIDEREAL"} |->
     IF t = "GMOS_IMAGE_FLAT" THEN "GMOS_IMAGE" ELSE "GEMINI"]

\* DataClassification.parent of every type of the model: GMOS_IMAGE is a
\* GMOS type and GMOS a GEMINI type, GEMINI is a root
parent ==
  [t \in Types |->
     IF t \in DOMAIN declared_parent
     THEN declared_parent[t]
     ELSE CASE t = "GMOS_IMAGE" -> "GMOS"
            [] t = "GMOS"       -> "GEMINI"
            [] OTHER            -> NoParent]

RECURSIVE Ancestors(_)
\* the types reached from t by following parent links upward (t excluded)
Ancestors(t) ==
  IF parent[t] = NoParent THEN {} ELSE {parent[t]} \cup Ancestors(parent[t])

\* cl.type_is_child_of(typ, par): par is reached from typ by parent links
type_is_child_of(typ, par) == par \in Ancestors(typ)

\* ad.get_types(prune): with prune only the leaf tags, those with no
\* descendant in the tag set, are returned
get_types(tagset, prune) ==
  IF prune
  THEN {t \in tagset : ~ \E c \in tagset : type_is_child_of(c, t)}
  ELSE tagset

(***************************************************************************)
(* Variables                                                               *)
(***************************************************************************)
VARIABLES
  \* ---- pick_config ----
  dataset,      \* kind of the object passed as dataset
  tags,         \* the tag set of the dataset
  index,        \* the configuration index, type name -> entry
  style,        \* "unique", "leaves" or "all"
  types,        \* the local `types` of pick_config
  generated,    \* keys of `candidates` when the generation loop has ended
  candidates,   \* keys of `candidates` at the style test
  outcome       \* result of the last call

cfgVars == <<dataset, tags, index, style, types, generated, candidates, outcome>>

VARIABLES
  \* ---- classification ----
  header,       \* the primary header of a dataset and its other classes
  classification \* the tag set the classifier gave it, NotClassified before

clsVars == <<header, classification>>

VARIABLES
  \* ---- recipe execution ----
  primset,      \* the primitive set the recipe is run with
  recipe,       \* the ordered primitive names
  pc,           \* position of the current step in the recipe
  phase,        \* number of yields of the current primitive so far
  runState,     \* Idle, Running, Paused, Completed or Failed
  rc,           \* the reduction context
  error,        \* the error that left the primitive, "" when none
  \* ---- what happened, kept for the properties ----
  started,      \* positions of the steps that began to run
  raisedAt,     \* position of the step that raised, 0 when none
  origError,    \* the error first raised inside that step
  failedCall,   \* the call of the context that failed in that step
  handed,       \* outputs of the last finished step, made the inputs
  issued,       \* the requests the steps put on the queue, with their step
  answered,     \* the requests taken off the queue and resolved
  runs,         \* positions of the steps whose body ran, in order
  pauseCtx,     \* step -> the context when that pause step paused the run
  resumeCtx     \* step -> the context when the run was resumed after it

exeVars == <<primset, recipe, pc, phase, runState, rc, error>>
histVars == <<started, raisedAt, origError, failedCall, handed,
              issued, answered, runs, pauseCtx, resumeCtx>>
runVars == <<exeVars, histVars>>

VARIABLES
  \* ---- IDFactory ----
  idGlobals,    \* the names bound in the namespace of module IDFactory
  idCall,       \* the function called, its version and its input
  idResult      \* what the call returned or raised

idVars == <<idGlobals, idCall, idResult>>

VARIABLES
  \* ---- interactive controls ----
  ctl,          \* the Controller: its tasks, the active task, the mouse
  ap,           \* the ApertureTask
  am,           \* the aperture model the ApertureTask works on
  band,         \* the BandTask
  bm,           \* the GIBandModel: its id counter and its bands
  ui,           \* the last event: what the task's handler returned or raised
  notified      \* the bands at the last finish_bands call of the listeners

uiVars == <<ctl, ap, am, band, bm, ui, notified>>

VARIABLES
  \* ---- gempy managers ----
  sfmArgs,      \* what ScienceFunctionManager was built with
  sfmRet,       \* what startUp returned or raised
  cl,           \* the attributes of the CLManager
  ads,          \* the caller's AstroData objects: file name, types, PHU keys
  disk,         \* the names of the files on disk
  clRet         \* the last call made on the CLManager and how it ended

mgrVars == <<sfmArgs, sfmRet, cl, ads, disk, clRet>>

vars == <<cfgVars, clsVars, runVars, idVars, uiVars, mgrVars>>

(***************************************************************************)
(* gdpgutil: open_if_name, inherit_config, inherit_index, pick_config      *)
(***************************************************************************)
DatasetKinds == {"str", "AstroData", "AstroDataRecord", "other"}
Styles == {"unique", "leaves", "all"}
\* an index entry is falsy ("empty") or a configuration ("cfg")
Entries == {"empty", "cfg"}

Indexes ==
  UNION {[ks -> Entries] : ks \in {s \in SUBSET Types : Cardinality(s) <= MaxKeys}}

\* GMOS_IMAGE_FLAT requires ISCLASS("GMOS_IMAGE")
TagSets == {s \in SUBSET Types : "GMOS_IMAGE_FLAT" \in s => "GMOS_IMAGE" \in s}

None == <<>>

\* open_if_name: str, AstroData and AstroDataRecord are accepted
open_if_name(d) ==
  IF d \in {"str", "AstroData", "AstroDataRecord"}
  THEN [ok |-> TRUE, needsClosing |-> (d = "str")]
  ELSE [ok |-> FALSE, needsClosing |-> FALSE]

\* the attribute `filename` exists on AstroData and AstroDataRecord, not on str
has_filename(d) == d \in {"AstroData", "AstroDataRecord"}

RECURSIVE inherit_config_far(_, _)
\* inherit_config preferring the key farthest from typ
inherit_config_far(typ, idx) ==
  IF parent[typ] # NoParent /\ inherit_config_far(parent[typ], idx) # None
  THEN inherit_config_far(parent[typ], idx)
  ELSE IF typ \in DOMAIN idx THEN <<typ, idx[typ]>> ELSE None

RECURSIVE inherit_config(_, _)
\* pick_config.inherit_config: (typ, index[typ]) of the first key met from typ
\* upward, None when the root is passed
inherit_config(typ, idx) ==
  IF typ \in DOMAIN idx
  THEN <<typ, idx[typ]>>
  ELSE IF parent[typ] # NoParent
       THEN inherit_config(parent[typ], idx)
       ELSE None

RECURSIVE inherit_index(_, _)
\* module-level inherit_index(typ, index); a falsy typ is ""
inherit_index(typ, idx) ==
  IF typ = "" /\ DOMAIN idx = {}
  THEN None
  ELSE IF typ \in DOMAIN idx
       THEN <<typ, idx[typ]>>
       ELSE IF parent[typ] # NoParent
            THEN inherit_index(parent[typ], idx)
            ELSE None

\* the keys one type adds to `candidates` in the generation loop
generate_one(typ, idx) ==
  IF typ \in DOMAIN idx
  THEN IF idx[typ] # "empty" THEN {typ} ELSE {}
  ELSE IF inherit_config(typ, idx) # None
       THEN {inherit_config(typ, idx)[1]}
       ELSE {}

\* keys of `candidates` after the generation loop over `types`
generate(tys, idx) == UNION {generate_one(t, idx) : t \in tys}

\* a pruning loop that deletes nothing
prune_nothing(cands) == cands

\* keys left by the pruning loop: a key that is an ancestor of another key
\* of the copy is deleted
prune_candidates(cands) ==
  {p \in cands : ~ \E c \in cands : type_is_child_of(c, p)}

\* a second loop that skips the empty entries as the generation loop does
regenerate_nonempty(tys, idx) ==
  {t \in tys : t \in DOMAIN idx /\ idx[t] # "empty"}

\* keys added by the loop run when the generation loop left no key
regenerate(tys, idx) ==
  {inherit_config(t, idx)[1] : t \in {u \in tys : inherit_config(u, idx) # None}}

\* the tag list pick_config works on
pick_types(tagset, sty) ==
  IF sty = "unique" \/ sty = "leaves"
  THEN get_types(tagset, TRUE)
  ELSE get_types(tagset, FALSE)

\* keys of `candidates` at `k = candidates.keys()` before the style test
final_keys(tys, idx) ==
  LET gen == generate(tys, idx)
      pruned == prune_candidates(gen)
  IN  IF Cardinality(gen) = 0 THEN pruned \cup regenerate(tys, idx) ELSE pruned

Raise(err, msg) == [kind |-> "raise", error |-> err, msg |-> msg, cands |-> <<>>]
Return(keys, idx) == [kind |-> "return", error |-> "", msg |-> "",
                      cands |-> [t \in keys |-> idx[t]]]

\* the style test and the return of pick_config
unique_check(d, sty, keys, idx) ==
  IF sty = "unique" /\ Cardinality(keys) > 1
  THEN IF has_filename(d)
       THEN Raise("GDPGUtilError", "Multiple Configs Found")
       ELSE Raise("AttributeError", "filename")
  ELSE IF sty = "unique" /\ Cardinality(keys) = 0
       THEN Raise("GDPGUtilError", "NO CONFIG")
       ELSE Return(keys, idx)

pick_config(d, tagset, idx, sty) ==
  IF ~ open_if_name(d).ok
  THEN Raise("GDPGUtilError", "BadArgument")
  ELSE unique_check(d, sty, final_keys(pick_types(tagset, sty), idx), idx)

NotCalled == [kind |-> "none", error |-> "", msg |-> "", cands |-> <<>>]

\* the classifier at rest
ClsIdle == header = [phu |-> <<>>, classes |-> {}] /\ classification = {}

\* an empty mapping
EmptyMap == <<>>

\* no recipe is run
RunIdle ==
  /\ primset = "astrodata_Gemini" /\ recipe = <<>> /\ pc = 0 /\ phase = 0
  /\ runState = "Idle" /\ error = ""
  /\ rc = [inputs |-> <<>>, outputs |-> <<>>, calibrations |-> EmptyMap,
           stacks |-> EmptyMap, params |-> EmptyMap, log |-> <<>>,
           rorqs |-> <<>>, pause |-> FALSE]
  /\ started = {} /\ raisedAt = 0 /\ origError = "" /\ failedCall = ""
  /\ handed = <<>>
  /\ issued = <<>> /\ answered = <<>> /\ runs = <<>>
  /\ pauseCtx = EmptyMap /\ resumeCtx = EmptyMap

\* no function of IDFactory is called
IdIdle ==
  /\ idGlobals = {}
  /\ idCall = [func |-> "", version |-> "", input |-> <<>>]
  /\ idResult = [kind |-> "none", value |-> <<>>]

\* a value that is None
NoneX == 1000

\* an id that is None
NoId == 0

\* ApertureTask.__init__
NewApertureTask ==
  [mode |-> "location", center |-> NoneX, left |-> NoneX, right |-> NoneX,
   id |-> NoId, last_x |-> NoneX]

\* the aperture model a Controller is given: its id counter and the
\* apertures it was told of
NewApertureModel ==
  [kind |-> "GIApertureModel", aperture_id |-> 1, aps |-> {}, err |-> ""]

\* BandTask.__init__
NewBandTask == [edge |-> NoneX, id |-> NoId]

\* GIBandModel.__init__
NewBandModel == [band_id |-> 1, bands |-> <<>>, err |-> ""]

\* no event handled yet
NoEvent ==
  [event |-> "", key |-> "", before |-> "", ret |-> FALSE, err |-> "", n |-> 0]

\* the listeners' finish_bands not called
NotNotified ==
  [entered |-> FALSE, called |-> FALSE, before |-> <<>>, bands |-> <<>>]

\* no Controller is built
UiIdle ==
  /\ ctl = [tasks |-> {}, task |-> "", x |-> NoneX, active |-> FALSE,
            inside |-> FALSE, document |-> FALSE]
  /\ ap = NewApertureTask
  /\ am = NewApertureModel
  /\ band = NewBandTask
  /\ bm = NewBandModel
  /\ ui = NoEvent
  /\ notified = NotNotified

\* a list that is None, and a list that is given
NoList == [some |-> FALSE, v |-> <<>>]

AList(s) == [some |-> TRUE, v |-> s]

\* a file name: a prefix, the root of the name and the suffixes after it
FileName(pre, base, suf) == [pre |-> pre, base |-> base, suf |-> suf]

\* the name that is None
NoName == FileName("", "None", <<>>)

\* a suffix that is None
NoSuffix == "None"

\* no ScienceFunctionManager is built
NoScienceFunctionManager ==
  [adinput |-> [kind |-> "None", v |-> <<>>],
   output_names |-> [kind |-> "None", v |-> <<>>],
   suffix |-> NoSuffix]

\* startUp not called
NotStarted ==
  [called |-> FALSE, err |-> "", cause |-> "",
   given |-> NoScienceFunctionManager, adinput |-> <<>>,
   output_names |-> <<>>]

\* the class attributes of CLManager
ClassCLManager ==
  [made |-> FALSE, status |-> FALSE, templog |-> FALSE,
   imageIns |-> NoList, refIns |-> NoList, arrayIns |-> NoList,
   imageInsCLdiskNames |-> NoList, refInsCLdiskNames |-> NoList,
   arrayInsCLdiskNames |-> NoList,
   imageInsListName |-> NoName, refInsListName |-> NoName,
   arrayInsListName |-> NoName,
   imageOutsNames |-> [kind |-> "None", v |-> <<>>],
   refOutsNames |-> [kind |-> "None", v |-> <<>>],
   arrayOutsNames |-> NoList,
   imageOutsListName |-> NoName, refOutsListName |-> NoName,
   arrayOutsListName |-> NoName,
   numArrayOuts |-> 0, suffix |-> NoSuffix, combinedImages |-> FALSE]

\* no call made on the CLManager
NoCLCall == [func |-> "", err |-> "", loaded |-> {}, n |-> 0]

\* no manager of gempy is built
MgrIdle ==
  /\ sfmArgs = NoScienceFunctionManager
  /\ sfmRet = NotStarted
  /\ cl = ClassCLManager
  /\ ads = <<>>
  /\ disk = {}
  /\ clRet = NoCLCall

InitConfig ==
  /\ ClsIdle
  /\ RunIdle
  /\ IdIdle
  /\ UiIdle
  /\ MgrIdle
  /\ dataset \in DatasetKinds
  /\ tags \in TagSets
  /\ index \in Indexes
  /\ style \in Styles
  /\ types = {}
  /\ generated = {}
  /\ candidates = {}
  /\ outcome = NotCalled

\* one call pick_config(dataset, index, style)
PickConfig ==
  /\ outcome.kind = "none"
  /\ types' = IF open_if_name(dataset).ok THEN pick_types(tags, style) ELSE {}
  /\ generated' = generate(types', index)
  /\ candidates' = IF open_if_name(dataset).ok THEN final_keys(types', index) ELSE {}
  /\ outcome' = pick_config(dataset, tags, index, style)
  /\ UNCHANGED <<dataset, tags, index, style, clsVars, runVars,
                 idVars, uiVars, mgrVars>>

\* one call inherit_index(typ, index) for a tag of the dataset
InheritIndex ==
  /\ outcome.kind = "none"
  /\ \E typ \in tags :
       outcome' = [kind |-> "inherit", error |-> typ, msg |-> "",
                   cands |-> inherit_index(typ, index)]
  /\ UNCHANGED <<dataset, tags, index, style, types, generated, candidates,
                 clsVars, runVars,
                 idVars, uiVars, mgrVars>>

NextConfig == PickConfig \/ InheritIndex

SpecConfig == InitConfig /\ [][NextConfig]_vars

(***************************************************************************)
(* Type classification: gemdtype.GMOS_IMAGE_FLAT, gemdtype.SIDEREAL        *)
(***************************************************************************)
\* pick_config at rest
CfgIdle ==
  /\ dataset = "AstroData" /\ tags = {} /\ index = <<>> /\ style = "unique"
  /\ types = {} /\ generated = {} /\ candidates = {} /\ outcome = NotCalled

\* the classifications whose requirement is not one of the two type files:
\* whether a dataset is of one of them is part of the dataset
OtherClasses == {"GEMINI", "GMOS", "GMOS_IMAGE", "GMOS_IMAGE_TWILIGHT"}

\* the sets of those classes a dataset can be of: each is given with the
\* classes above it
OtherClassSets ==
  {c \in SUBSET OtherClasses :
     /\ "GMOS_IMAGE_TWILIGHT" \in c => "GMOS_IMAGE" \in c
     /\ "GMOS_IMAGE" \in c => "GMOS" \in c
     /\ "GMOS" \in c => "GEMINI" \in c}

PhuValues ==
  [OBSTYPE : {"FLAT", "OBJECT"}, OBJECT : {"Twilight", "twilight", "M31"},
   DECTRACK : {"0.", "1."}, RATRACK : {"0.", "1."}]

\* PHU(key = value)
PHU(h, key, value) == h.phu[key] = value

\* SIDEREAL.requirement
SIDEREAL_requirement(h) ==
  PHU(h, "DECTRACK", "0.") /\ PHU(h, "RATRACK", "0.")

\* ISCLASS(name) for a class of OtherClasses
ISCLASS(h, name) == name \in h.classes

\* GMOS_IMAGE_FLAT.requirement
GMOS_IMAGE_FLAT_requirement(h) ==
  \/ /\ ISCLASS(h, "GMOS_IMAGE")
     /\ PHU(h, "OBSTYPE", "FLAT")
     /\ ~ ISCLASS(h, "GMOS_IMAGE_TWILIGHT")
  \/ /\ ISCLASS(h, "GMOS_IMAGE")
     /\ (PHU(h, "OBJECT", "Twilight") \/ PHU(h, "OBJECT", "twilight"))

\* classify(dataset_headers): the names of the classifications whose
\* requirement the dataset satisfies
classify(h) ==
  h.classes
    \cup (IF GMOS_IMAGE_FLAT_requirement(h) THEN {"GMOS_IMAGE_FLAT"} ELSE {})
    \cup (IF SIDEREAL_requirement(h) THEN {"SIDEREAL"} ELSE {})

NotClassified == {"?"}

InitClassify ==
  /\ CfgIdle
  /\ RunIdle
  /\ IdIdle
  /\ UiIdle
  /\ MgrIdle
  /\ header \in [phu : PhuValues, classes : OtherClassSets]
  /\ classification = NotClassified

\* the classifier runs on the dataset
Classify ==
  /\ classification = NotClassified
  /\ classification' = classify(header)
  /\ UNCHANGED <<header, cfgVars, runVars,
                 idVars, uiVars, mgrVars>>

\* a header value is edited and the tag set is computed again
Reclassify ==
  /\ classification # NotClassified
  /\ \E key \in {"OBSTYPE", "OBJECT"} : \E v \in {"FLAT", "Twilight"} :
       /\ (key = "OBSTYPE") = (v = "FLAT")
       /\ header.phu[key] # v
       /\ header' = [header EXCEPT !.phu[key] = v]
  /\ classification' = classify(header')
  /\ UNCHANGED <<cfgVars, runVars,
                 idVars, uiVars, mgrVars>>

NextClassify == Classify \/ Reclassify

SpecClassify == InitClassify /\ [][NextClassify]_vars

(***************************************************************************)
(* The reduction context and the GEMINI primitives                         *)
(***************************************************************************)
\* a filename is its base name followed by the suffixes postpended to it
BaseNames == {"f1", "f2", "g1", "x1"}

\* the primary header of the file a filename names; f1 and f2 are of one
\* observation, x1 has no OBSID
phu_of(f) ==
  CASE f[1] \in {"f1", "f2"} -> [OBSID |-> "GN-1", OBJECT |-> "M31"]
    [] f[1] = "g1" -> [OBSID |-> "GN-2", OBJECT |-> "M31"]
    [] OTHER       -> [OBJECT |-> "M31"]

\* version_index["stackID"]
StackIDVersion == "1_0"

\* IDFactory.generateStackableID(inputf) with the default version: the
\* parts of version + "_" + OBSID + "_" + OBJECT, None on the KeyError of a
\* header without OBSID
generateStackableID(f) ==
  IF "OBSID" \in DOMAIN phu_of(f)
  THEN <<StackIDVersion, phu_of(f).OBSID, phu_of(f).OBJECT>>
  ELSE None

\* g overriding f
Override(f, g) ==
  [k \in DOMAIN f \cup DOMAIN g |-> IF k \in DOMAIN g THEN g[k] ELSE f[k]]

\* the elements of a sequence
Range(q) == {q[i] : i \in DOMAIN q}

\* filename + postpend for every input
postpend(files, sfx) == [i \in DOMAIN files |-> Append(files[i], sfx)]

\* what a primitive leaves when its body runs to the next yield: the
\* context, the error that leaves it ("" when it yields) and the error that
\* was raised first
Yielded(c) == [rc |-> c, err |-> "", orig |-> ""]
Raised(c, err, orig) == [rc |-> c, err |-> err, orig |-> orig]

\* log.critical(message): the primitive and what the message names
critical(c, prim, about, names) ==
  [c EXCEPT !.log = Append(@, [level |-> "critical", prim |-> prim,
                               about |-> about, names |-> names])]

\* rc.reportOutput(files)
reportOutput(c, files) == [c EXCEPT !.outputs = @ \o files]

\* a request object on the queue of the context; answer is what the
\* calibration service will answer to a calibration request
Request(kind, caltype, sid, file, answer) ==
  [kind |-> kind, caltype |-> caltype, sid |-> sid, file |-> file,
   answer |-> answer]

\* the requests are added to the queue of the context
addRq(c, rqs) == [c EXCEPT !.rorqs = @ \o rqs]

\* rc.rqCal(caltype, inputs): one CalibrationRequest for every input is put
\* on the queue, or the call fails
rqCal(c, caltype, env) ==
  IF env = "raise"
  THEN Raised(c, "CalError", "CalError")
  ELSE Yielded(addRq(c, [i \in DOMAIN c.inputs |->
                 Request("cal", caltype, <<>>, c.inputs[i], env)]))

\* rc.rqDisplay(displayID): a DisplayRequest is put on the queue
rqDisplay(c) == addRq(c, <<Request("display", "", <<>>, <<>>, "")>>)

\* rc.rqStackUpdate(purpose): one UpdateStackableRequest for every input,
\* with the stack id of the input; KeyError for a header without OBSID
rqStackUpdate(c, purpose) ==
  IF \E f \in Range(c.inputs) : generateStackableID(f) = None
  THEN Raised(c, "KeyError", "KeyError")
  ELSE Yielded(addRq(c, [i \in DOMAIN c.inputs |->
         Request("stackupdate", "",
                 <<purpose>> \o generateStackableID(c.inputs[i]),
                 c.inputs[i], "")]))

\* rc.rqStackGet(purpose): one GetStackableRequest for every input
rqStackGet(c, purpose) ==
  IF \E f \in Range(c.inputs) : generateStackableID(f) = None
  THEN Raised(c, "KeyError", "KeyError")
  ELSE Yielded(addRq(c, [i \in DOMAIN c.inputs |->
         Request("stackget", "",
                 <<purpose>> \o generateStackableID(c.inputs[i]),
                 c.inputs[i], "")]))

\* rc.requestPause()
requestPause(c) == [c EXCEPT !.pause = TRUE]

\* rc.getStack(sid): the list of the stack, empty for an unknown id
getStack(c, sid) == IF sid \in DOMAIN c.stacks THEN c.stacks[sid] ELSE <<>>

\* what a stack-update request does with a filename the list already holds
StackPolicies == {"dedup", "append"}

\* the stack list after a stack-update request for one filename
stack_add(list, f, policy) ==
  IF policy = "dedup" /\ f \in Range(list) THEN list ELSE Append(list, f)

\* the broker resolves one request: a found calibration is cached under
\* (dataset, caltype), a stack update adds the file to the list of its stack
resolve(c, rq, policy) ==
  CASE rq.kind = "cal" /\ rq.answer = "found" ->
         [c EXCEPT !.calibrations =
            Override(@, [k \in {<<rq.file, rq.caltype>>} |->
                           <<"processed", rq.caltype>>])]
    [] rq.kind = "stackupdate" ->
         [c EXCEPT !.stacks =
            Override(@, [k \in {rq.sid} |->
                           stack_add(getStack(c, rq.sid), rq.file, policy)])]
    [] OTHER -> c

RECURSIVE resolve_all(_, _, _)
\* the requests of a queue resolved in the order they were put on it
resolve_all(c, rqs, policy) ==
  IF rqs = <<>>
  THEN c
  ELSE resolve_all(resolve(c, Head(rqs), policy), Tail(rqs), policy)

\* a service that takes nothing off the queue
service_nothing(c, policy) == c

\* the queue of the context is served when a primitive yields: every
\* request on it is resolved and the queue is empty
service(c, policy) ==
  [resolve_all(c, c.rorqs, policy) EXCEPT !.rorqs = <<>>]

\* ---- astrodata_Gemini/RECIPES_Gemini/primitives/primitives_GEMINI.py ----

\* a toolbox primitive: try: [rc.run(sub)]; adOuts = geminiScience.f(...);
\* rc.reportOutput(adOuts) except: log.critical(... + rc.inputsAsStr()); raise
science_primitive(c, prim, sfx, env) ==
  IF env = "ok"
  THEN Yielded(reportOutput(c, postpend(c.inputs, sfx)))
  ELSE Raised(critical(c, prim, "inputs", c.inputs), env, env)

\* GEMINIPrimitives.addDQ; env: "ok", or the error of rc.run('addBPM') or of
\* geminiScience.addDQ
addDQ(c, env) == science_primitive(c, "addDQ", "dq", env)

\* GEMINIPrimitives.addVAR
addVAR(c, env) == science_primitive(c, "addVAR", "var", env)

\* a crashReduce that raises nothing and yields
crashReduce_yields(c, env) == Yielded(c)

\* GEMINIPrimitives.crashReduce
crashReduce(c, env) == Raised(c, "Crashing", "Crashing")

\* a display primitive that only logs a failed request
display_swallow(c, env) ==
  IF env = "ok"
  THEN Yielded(rqDisplay(c))
  ELSE Yielded(critical(c, "display", "none", <<>>))

\* GEMINIPrimitives.display
display(c, env) ==
  IF env = "ok"
  THEN Yielded(rqDisplay(c))
  ELSE Raised(critical(c, "display", "none", <<>>), "DisplayError", "DisplayError")

\* GEMINIPrimitives.getProcessedBias
getProcessedBias(c, env) == rqCal(c, "bias", env)

\* GEMINIPrimitives.getProcessedFlat
getProcessedFlat(c, env) == rqCal(c, "flat", env)

\* rc["purpose"], "" when it is None
purpose_of(c) ==
  IF "purpose" \in DOMAIN c.params THEN c.params["purpose"] ELSE ""

\* the stack ids of the inputs: purpose + generateStackableID(inp.ad)
sidset_of(c) ==
  {<<purpose_of(c)>> \o generateStackableID(f) : f \in Range(c.inputs)}

\* a loop that reports the stack of the first stack id only
report_stacks_first(c, order) ==
  IF order = <<>> THEN c ELSE reportOutput(c, getStack(c, Head(order)))

RECURSIVE report_stacks(_, _)
\* the second loop of getStackable over the stack ids in the order `order`
report_stacks(c, order) ==
  IF order = <<>>
  THEN c
  ELSE report_stacks(reportOutput(c, getStack(c, Head(order))), Tail(order))

\* GEMINIPrimitives.getStackable up to its first yield; env.order is the
\* order in which the set of stack ids is iterated, env.failAt the position
\* of the rc.getStack call that fails (0: none)
getStackable(c, env) ==
  IF \E f \in Range(c.inputs) : generateStackableID(f) = None
  THEN \* `sid` is not bound when the handler builds its message
       Raised(c, "UnboundLocalError", "KeyError")
  ELSE IF env.failAt = 0
       THEN Yielded(report_stacks(c, env.order))
       ELSE LET before == report_stacks(c, SubSeq(env.order, 1, env.failAt - 1))
            IN  Raised(critical(before, "getStackable", "sid",
                                <<env.order[env.failAt]>>),
                       "StackError", "StackError")

\* a pause primitive that requests nothing
pause_no_request(c, env) == Yielded(c)

\* GEMINIPrimitives.pause
pause(c, env) == Yielded(requestPause(c))

\* GEMINIPrimitives.setStackable; env: "ok", or the error of ad.write
setStackable(c, env) ==
  LET r == rqStackUpdate(c, purpose_of(c))
  IN  IF r.err # ""
      THEN Raised(critical(c, "setStackable", "inputs", c.inputs),
                  r.err, r.err)
      ELSE IF env = "ok"
           THEN r
           ELSE Raised(critical(r.rc, "setStackable", "inputs", c.inputs),
                       env, env)

\* ---- RECIPES_Gemini/primitives/primitives_GEMINI.py ----

\* co.update({caltype: co.calibrations[(co.inputs[0], caltype)]})
gem_produce(c, caltype) ==
  IF c.inputs = <<>>
  THEN Raised(c, "IndexError", "IndexError")
  ELSE IF <<c.inputs[1], caltype>> \notin DOMAIN c.calibrations
       THEN Raised(c, "KeyError", "KeyError")
       ELSE Yielded([c EXCEPT !.params =
              Override(@, [k \in {caltype} |->
                             c.calibrations[<<c.inputs[1], caltype>>]])])

\* GEMINIPrimitives.gem_produce_im_flat
gem_produce_im_flat(c, env) == gem_produce(c, "flat")

\* GEMINIPrimitives.gem_produce_bias
gem_produce_bias(c, env) == gem_produce(c, "bias")

\* GEMINIPrimitives.getProcessedBias of RECIPES_Gemini: the handler prints
\* and raises again
old_getProcessedBias(c, env) == rqCal(c, "bias", env)

\* GEMINIPrimitives.setStackable of RECIPES_Gemini
old_setStackable(c, env) == rqStackUpdate(c, "")

\* GEMINIPrimitives.getStackable of RECIPES_Gemini
old_getStackable(c, env) == rqStackGet(c, "")

\* ---- the recipe executor ----
\* largest number of steps of a recipe
MaxRecipeLen == 3

PrimSets == {"astrodata_Gemini", "RECIPES_Gemini"}

Primitives(ps) ==
  IF ps = "astrodata_Gemini"
  THEN {"addDQ", "addVAR", "crashReduce", "display", "getProcessedBias",
        "getProcessedFlat", "getStackable", "pause", "setStackable"}
  ELSE {"gem_produce_im_flat", "gem_produce_bias", "getProcessedBias",
        "setStackable", "getStackable"}

Recipes(ps) == UNION {[1..n -> Primitives(ps)] : n \in 1..MaxRecipeLen}

\* number of `yield rc` a primitive passes when nothing is raised
NumYields(ps, prim) ==
  IF ps = "astrodata_Gemini" /\ prim = "getStackable" THEN 2 ELSE 1

\* outcomes of the calls a primitive makes outside itself
ScienceEnvs == {"ok", "RunError", "ScienceError"}
RequestEnvs == {"ok", "raise"}
CalEnvs == {"found", "notfound", "raise"}
WriteEnvs == {"ok", "WriteError"}

\* the orders in which a set of stack ids can be iterated
Orders(sids) ==
  {q \in UNION {[1..n -> sids] : n \in {Cardinality(sids)}} : Range(q) = sids}

StackEnvs(c) ==
  IF \E f \in Range(c.inputs) : generateStackableID(f) = None
  THEN {[order |-> <<>>, failAt |-> 0]}
  ELSE {[order |-> q, failAt |-> k] :
          q \in Orders(sidset_of(c)), k \in 0..Cardinality(sidset_of(c))}

InitialInputs ==
  {<<>>, << <<"f1">> >>, << <<"f1">>, <<"g1">> >>, << <<"f2">>, <<"f1">> >>,
   << <<"x1">> >>}

InitialCalibrations ==
  {EmptyMap, [k \in {<< <<"f1">>, "bias">>} |-> <<"processed", "bias">>]}

InitialStacks(pur) ==
  {EmptyMap,
   [k \in {<<pur, StackIDVersion, "GN-1", "M31">>} |-> << <<"f1">>, <<"f2">> >>]}

InitialParams == {EmptyMap, [k \in {"purpose"} |-> "fringe"]}

InitRun ==
  /\ CfgIdle
  /\ ClsIdle
  /\ IdIdle
  /\ UiIdle
  /\ MgrIdle
  /\ primset \in PrimSets
  /\ recipe \in Recipes(primset)
  /\ pc = 0 /\ phase = 0 /\ runState = "Idle" /\ error = ""
  /\ \E inp \in InitialInputs, cal \in InitialCalibrations, par \in InitialParams :
       \E stk \in InitialStacks(IF par = EmptyMap THEN "" ELSE par["purpose"]) :
          rc = [inputs |-> inp, outputs |-> <<>>, calibrations |-> cal,
                stacks |-> stk, params |-> par, log |-> <<>>,
                rorqs |-> <<>>, pause |-> FALSE]
  /\ started = {} /\ raisedAt = 0 /\ origError = "" /\ failedCall = ""
  /\ handed = <<>>
  /\ issued = <<>> /\ answered = <<>> /\ runs = <<>>
  /\ pauseCtx = EmptyMap /\ resumeCtx = EmptyMap

\* the executor takes the first step of the recipe
StartRecipe ==
  /\ runState = "Idle"
  /\ runState' = "Running"
  /\ pc' = 1 /\ phase' = 0
  /\ UNCHANGED <<primset, recipe, rc, error, histVars, cfgVars, clsVars,
                 idVars, uiVars, mgrVars>>

\* the current step is primitive prim of set ps and has not run yet
AtStep(ps, prim) ==
  /\ runState = "Running"
  /\ primset = ps
  /\ pc \in 1..Len(recipe)
  /\ recipe[pc] = prim
  /\ phase = 0

\* the executor runs the body of the current primitive to its next yield:
\* the context is the primitive's; an error that leaves the primitive stops
\* the recipe and the run is Failed
RunBody(res, call) ==
  /\ rc' = res.rc
  /\ started' = started \cup {pc}
  /\ runs' = Append(runs, pc)
  /\ issued' = issued \o [i \in 1..(Len(res.rc.rorqs) - Len(rc.rorqs)) |->
                            [rq |-> res.rc.rorqs[Len(rc.rorqs) + i],
                             step |-> pc]]
  /\ IF res.err = ""
     THEN /\ phase' = phase + 1
          /\ runState' = IF res.rc.pause THEN "Paused" ELSE runState
          /\ pauseCtx' = IF res.rc.pause
                         THEN Override(pauseCtx, [k \in {pc} |-> res.rc])
                         ELSE pauseCtx
          /\ UNCHANGED <<error, raisedAt, origError>>
     ELSE /\ runState' = "Failed"
          /\ error' = res.err
          /\ raisedAt' = pc
          /\ origError' = res.orig
          /\ UNCHANGED <<phase, pauseCtx>>
  /\ failedCall' = call
  /\ UNCHANGED <<primset, recipe, pc, handed, answered, resumeCtx,
                 cfgVars, clsVars,
                 idVars, uiVars, mgrVars>>

AddDQ ==
  /\ AtStep("astrodata_Gemini", "addDQ")
  /\ \E env \in ScienceEnvs :
       RunBody(addDQ(rc, env),
               CASE env = "RunError" -> "rc.run"
                 [] env = "ScienceError" -> "geminiScience.addDQ"
                 [] OTHER -> "")

AddVAR ==
  /\ AtStep("astrodata_Gemini", "addVAR")
  /\ \E env \in {"ok", "ScienceError"} :
       RunBody(addVAR(rc, env),
               IF env = "ok" THEN "" ELSE "geminiScience.addVAR")

CrashReduce ==
  /\ AtStep("astrodata_Gemini", "crashReduce")
  /\ RunBody(crashReduce(rc, "ok"), "")

Display ==
  /\ AtStep("astrodata_Gemini", "display")
  /\ \E env \in RequestEnvs :
       RunBody(display(rc, env), IF env = "ok" THEN "" ELSE "rc.rqDisplay")

GetProcessedBias ==
  /\ AtStep("astrodata_Gemini", "getProcessedBias")
  /\ \E env \in CalEnvs :
       RunBody(getProcessedBias(rc, env), IF env = "raise" THEN "rc.rqCal" ELSE "")

GetProcessedFlat ==
  /\ AtStep("astrodata_Gemini", "getProcessedFlat")
  /\ \E env \in CalEnvs :
       RunBody(getProcessedFlat(rc, env), IF env = "raise" THEN "rc.rqCal" ELSE "")

GetStackable ==
  /\ AtStep("astrodata_Gemini", "getStackable")
  /\ \E env \in StackEnvs(rc) :
       RunBody(getStackable(rc, env),
               IF getStackable(rc, env).orig = "KeyError"
               THEN "IDFactory.generateStackableID"
               ELSE IF env.failAt # 0 THEN "rc.getStack" ELSE "")

Pause ==
  /\ AtStep("astrodata_Gemini", "pause")
  /\ RunBody(pause(rc, "ok"), "")

\* the run is resumed: the pause flag is cleared and the walk goes on
Resume ==
  /\ runState = "Paused"
  /\ runState' = "Running"
  /\ rc' = [rc EXCEPT !.pause = FALSE]
  /\ resumeCtx' = Override(resumeCtx, [k \in {pc} |-> rc'])
  /\ UNCHANGED <<primset, recipe, pc, phase, error, started, raisedAt,
                 origError, failedCall, handed, issued, answered, runs,
                 pauseCtx, cfgVars, clsVars,
                 idVars, uiVars, mgrVars>>

SetStackable ==
  /\ AtStep("astrodata_Gemini", "setStackable")
  /\ \E env \in WriteEnvs :
       RunBody(setStackable(rc, env),
               IF setStackable(rc, env).err = "KeyError"
               THEN "rc.rqStackUpdate"
               ELSE IF env = "ok" THEN "" ELSE "ad.write")

\* getStackable is resumed after the yield inside its try and yields again
GetStackableResume ==
  /\ runState = "Running"
  /\ primset = "astrodata_Gemini"
  /\ pc \in 1..Len(recipe)
  /\ recipe[pc] = "getStackable"
  /\ phase = 1
  /\ phase' = 2
  /\ UNCHANGED <<primset, recipe, pc, runState, rc, error, histVars,
                 cfgVars, clsVars,
                 idVars, uiVars, mgrVars>>

GemProduceImFlat ==
  /\ AtStep("RECIPES_Gemini", "gem_produce_im_flat")
  /\ RunBody(gem_produce_im_flat(rc, "ok"), "")

GemProduceBias ==
  /\ AtStep("RECIPES_Gemini", "gem_produce_bias")
  /\ RunBody(gem_produce_bias(rc, "ok"), "")

OldGetProcessedBias ==
  /\ AtStep("RECIPES_Gemini", "getProcessedBias")
  /\ \E env \in CalEnvs :
       RunBody(old_getProcessedBias(rc, env),
               IF env = "raise" THEN "co.rqCal" ELSE "")

OldSetStackable ==
  /\ AtStep("RECIPES_Gemini", "setStackable")
  /\ RunBody(old_setStackable(rc, "ok"),
             IF old_setStackable(rc, "ok").err = "" THEN ""
             ELSE "co.rqStackUpdate")

OldGetStackable ==
  /\ AtStep("RECIPES_Gemini", "getStackable")
  /\ RunBody(old_getStackable(rc, "ok"),
             IF old_getStackable(rc, "ok").err = "" THEN ""
             ELSE "co.rqStackGet")

\* the outputs a step reported become the inputs of the next step
next_inputs(c) ==
  IF c.outputs # <<>>
  THEN [c EXCEPT !.inputs = c.outputs, !.outputs = <<>>]
  ELSE c

\* the primitive has passed its last yield: the queue of the context is
\* served, the primitive ends, the outputs it reported become the inputs of
\* the next step, and the run is Completed after the last step
EndPrimitive ==
  /\ runState = "Running"
  /\ pc \in 1..Len(recipe)
  /\ phase = NumYields(primset, recipe[pc])
  /\ \E policy \in StackPolicies :
       rc' = next_inputs(service(rc, policy))
  /\ answered' = answered \o [i \in DOMAIN rc.rorqs |->
                                [rq |-> rc.rorqs[i], step |-> pc]]
  /\ handed' = IF rc.outputs # <<>> THEN rc.outputs ELSE handed
  /\ pc' = pc + 1
  /\ phase' = 0
  /\ runState' = IF pc = Len(recipe) THEN "Completed" ELSE "Running"
  /\ UNCHANGED <<primset, recipe, error, started, raisedAt, origError,
                 failedCall, issued, runs, pauseCtx, resumeCtx,
                 cfgVars, clsVars,
                 idVars, uiVars, mgrVars>>

NextRun ==
  \/ StartRecipe
  \/ AddDQ \/ AddVAR \/ CrashReduce \/ Display
  \/ GetProcessedBias \/ GetProcessedFlat
  \/ GetStackable \/ GetStackableResume
  \/ Pause \/ Resume \/ SetStackable
  \/ GemProduceImFlat \/ GemProduceBias \/ OldGetProcessedBias
  \/ OldSetStackable \/ OldGetStackable
  \/ EndPrimitive

SpecRun == InitRun /\ [][NextRun]_vars

(***************************************************************************)
(* Claims about pick_config (checked under SpecConfig)                     *)
(***************************************************************************)
\* a call of pick_config on a dataset open_if_name accepts has ended
Picked == outcome.kind \in {"return", "raise"} /\ open_if_name(dataset).ok

\* the key of idx closest to t among t and its ancestors, as a set (empty
\* when there is none)
ClosestKey(t, idx) ==
  IF t \in DOMAIN idx
  THEN {t}
  ELSE {a \in Ancestors(t) \cap DOMAIN idx :
          ~ \E b \in Ancestors(t) \cap DOMAIN idx : a \in Ancestors(b)}

\* C1: with style "unique" pick_config returns a mapping of exactly one
\* entry or raises GDPGUtilError, "Multiple Configs Found" when several
\* candidates remain and "NO CONFIG" when none remains.
C1_UniqueOrGDPGUtilError ==
  (Picked /\ style = "unique") =>
     \/ outcome.kind = "return" /\ Cardinality(DOMAIN outcome.cands) = 1
     \/ /\ outcome.kind = "raise"
        /\ outcome.error = "GDPGUtilError"
        /\ Cardinality(candidates) > 1 => outcome.msg = "Multiple Configs Found"
        /\ Cardinality(candidates) = 0 => outcome.msg = "NO CONFIG"
        /\ Cardinality(candidates) # 1

\* the part of C1 that the code keeps: a "unique" call never returns zero or
\* several entries, and a dataset that carries a filename gets GDPGUtilError
C1_NeverArbitrary ==
  (Picked /\ style = "unique") =>
     /\ outcome.kind = "return" => Cardinality(DOMAIN outcome.cands) = 1
     /\ (outcome.kind = "raise" /\ has_filename(dataset)) =>
           outcome.error = "GDPGUtilError"

C4_FallbackOverFullTagSet ==
  (Picked /\ prune_candidates(generated) = {}) =>
     candidates = UNION {ClosestKey(t, index) : t \in tags}

\* C4 amended: when the generation loop leaves no candidate (pruning never
\* removes the last one), the candidates are those of the ancestor walk over
\* the tag list the generation loop used: the leaf tags with "unique" and
\* "leaves", the full tag set with "all".
C4_FallbackOverSameTypes ==
  /\ (Picked /\ generated = {}) =>
        candidates = UNION {ClosestKey(t, index) : t \in types}
  /\ Picked => (prune_candidates(generated) = {} <=> generated = {})

C4_Witness ==
  /\ Picked
  /\ generated = {}
  /\ candidates # {}
  /\ types # tags

\* C5: with style "all" every tag of the dataset that is a key of the index
\* with a non-empty entry is in the returned mapping, and nothing is raised.
C5_AllReturnsEveryKey ==
  (Picked /\ style = "all") =>
     /\ outcome.kind = "return"
     /\ \A t \in tags :
          (t \in DOMAIN index /\ index[t] # "empty") => t \in DOMAIN outcome.cands


C6_FlatHasParent ==
  (classification # NotClassified /\ "GMOS_IMAGE_FLAT" \in classification) =>
     "GMOS_IMAGE" \in classification


(***************************************************************************)
(* Claims about recipe execution (checked under SpecRun)                   *)
(***************************************************************************)
\* C7: when a step of the recipe raises, no later step is ever started, the
\* run is Failed, and the outputs the step before it reported, which the
\* context holds as its inputs, are still there; a crashReduce step always
\* raises, so no step after it is started.
C7_FailFast ==
  /\ raisedAt # 0 =>
       /\ runState = "Failed"
       /\ pc = raisedAt
       /\ \A i \in started : i <= raisedAt
  /\ runState = "Failed" => raisedAt # 0
  /\ primset = "astrodata_Gemini" =>
       \A i \in started : \A j \in 1..(i - 1) : recipe[j] # "crashReduce"
  /\ (runState = "Failed" /\ handed # <<>>) => rc.inputs = handed

C7_Witness ==
  /\ runState = "Failed"
  /\ Len(recipe) = 3
  /\ recipe[1] = "addDQ" /\ recipe[2] = "crashReduce"
  /\ started = {1, 2}
  /\ handed = << <<"f1", "dq">> >>
  /\ rc.inputs = handed

\* C8: an error raised while a primitive of astrodata_Gemini runs, in the
\* request-issuing primitives getProcessedBias, getProcessedFlat and
\* getStackable as in the others, is logged at critical severity with the
\* names of the inputs, and the error that leaves the primitive is the one
\* that was raised.
C8_LoggedAndReraised ==
  ( /\ raisedAt # 0
    /\ primset = "astrodata_Gemini"
    /\ recipe[raisedAt] \in {"getProcessedBias", "getProcessedFlat",
                              "getStackable"} ) =>
     /\ error = origError
     /\ rc.log # <<>>
     /\ rc.log[Len(rc.log)].level = "critical"
     /\ rc.log[Len(rc.log)].prim = recipe[raisedAt]
     /\ rc.log[Len(rc.log)].about = "inputs"
     /\ rc.log[Len(rc.log)].names = rc.inputs

\* the error that leaves a primitive is the one raised inside it
C8_SameErrorReraised ==
  (raisedAt # 0 /\ primset = "astrodata_Gemini") => error = origError

\* the part of C8 the toolbox primitives keep
C8_ScienceLoggedAndReraised ==
  (raisedAt # 0 /\ primset = "astrodata_Gemini"
     /\ recipe[raisedAt] \in {"addDQ", "addVAR"}) =>
     /\ error = origError
     /\ rc.log # <<>>
     /\ rc.log[Len(rc.log)] = [level |-> "critical", prim |-> recipe[raisedAt],
                               about |-> "inputs", names |-> rc.inputs]

\* C9 as stated: a display request that fails is logged and never makes the
\* run Failed.
C9_DisplayNeverFatal ==
  failedCall = "rc.rqDisplay" =>
     /\ runState # "Failed"
     /\ rc.log # <<>> /\ rc.log[Len(rc.log)].prim = "display"

\* C9 amended: when the display request of the display primitive fails, the
\* failure is logged at critical severity and raised again: the run is
\* Failed at the display step and no later step is started.
C9_DisplayFailureIsFatal ==
  failedCall = "rc.rqDisplay" =>
     /\ runState = "Failed"
     /\ raisedAt = pc /\ recipe[pc] = "display"
     /\ error = "DisplayError"
     /\ rc.log # <<>>
     /\ rc.log[Len(rc.log)].level = "critical"
     /\ rc.log[Len(rc.log)].prim = "display"
     /\ \A i \in started : i <= pc

C9_Witness ==
  /\ failedCall = "rc.rqDisplay"
  /\ runState = "Failed"
  /\ pc < Len(recipe)
  /\ recipe[pc] = "display"

\* the calibration type a gem_produce primitive reads
CalTypeRead(prim) == IF prim = "gem_produce_bias" THEN "bias" ELSE "flat"

\* C10: a primitive that reads the calibration cache for its first input
\* when the cache has no entry for that key gets a not-found outcome and no
\* exception: the run is not Failed by it.
C10_CacheMissRaisesNothing ==
  ( /\ primset = "RECIPES_Gemini"
    /\ pc \in started
    /\ recipe[pc] \in {"gem_produce_bias", "gem_produce_im_flat"}
    /\ rc.inputs # <<>>
    /\ <<rc.inputs[1], CalTypeRead(recipe[pc])>> \notin DOMAIN rc.calibrations ) =>
     runState # "Failed"


(***************************************************************************)
(* Claims about requests, pause and stacks (checked under SpecRun)         *)
(***************************************************************************)
\* C11: when a step is complete, that is when the next step is about to
\* start or the run is Completed, every request the steps issued has been
\* resolved: the queue of the context is empty and the requests answered
\* are the requests issued, in order.
C11_RequestsResolvedAtStepEnd ==
  (phase = 0 /\ runState \in {"Running", "Completed"}) =>
     /\ rc.rorqs = <<>>
     /\ answered = issued

C11_Witness ==
  /\ runState = "Completed"
  /\ \E i, j, k \in DOMAIN answered :
       /\ answered[i].rq.kind = "cal" /\ answered[i].step = 1
       /\ answered[j].rq.kind = "stackupdate" /\ answered[j].step = 2
       /\ answered[k].rq.kind = "display" /\ answered[k].step = 3

\* the pause steps of the recipe
PauseSteps ==
  {k \in DOMAIN recipe : primset = "astrodata_Gemini" /\ recipe[k] = "pause"}

\* two contexts with the same inputs, outputs and caches
SameContext(a, b) ==
  /\ a.inputs = b.inputs
  /\ a.outputs = b.outputs
  /\ a.calibrations = b.calibrations
  /\ a.stacks = b.stacks

RECURSIVE TotalLen(_, _)
\* the number of members of the stacks of the stack ids S in context c
TotalLen(c, S) ==
  IF S = {}
  THEN 0
  ELSE LET sid == CHOOSE x \in S : TRUE
       IN  Len(getStack(c, sid)) + TotalLen(c, S \ {sid})

\* the list `part` is in `whole` as one run of consecutive elements
Contiguous(part, whole) ==
  \E off \in 0..(Len(whole) - Len(part)) :
     SubSeq(whole, off + 1, off + Len(part)) = part

\* C14: when getStackable of astrodata_Gemini has yielded, the outputs of
\* the context hold, for every distinct stack id of the inputs, the members
\* of that stack in stack order, and nothing else: a stack two inputs share
\* is reported once.
C14_WholeStackReported ==
  ( /\ primset = "astrodata_Gemini"
    /\ runState = "Running"
    /\ pc \in DOMAIN recipe
    /\ recipe[pc] = "getStackable"
    /\ phase >= 1 ) =>
     /\ \A sid \in sidset_of(rc) : Contiguous(getStack(rc, sid), rc.outputs)
     /\ Len(rc.outputs) = TotalLen(rc, sidset_of(rc))

C14_Witness ==
  /\ primset = "astrodata_Gemini"
  /\ runState = "Running"
  /\ recipe = <<"getStackable">>
  /\ phase = 2
  /\ rc.inputs = << <<"f2">>, <<"f1">> >>
  /\ rc.outputs = << <<"f1">>, <<"f2">> >>

\* C25: a primitive yields the context once per call: no call has yielded
\* more than once.
C25_OneYieldPerCall == phase <= 1

\* the part of C25 that holds: every primitive but getStackable of
\* astrodata_Gemini yields once
C25_OneYieldButGetStackable ==
  phase > 1 => (primset = "astrodata_Gemini" /\ recipe[pc] = "getStackable")


(***************************************************************************)
(* astrodata/IDFactory.py                                                  *)
(***************************************************************************)
\* longest identifier of a recipe input, in characters
MaxIdLen == 2

\* largest number of inputs of a recipe
MaxInputs == 2

version_index == [stackID |-> "1_0", recipeID |-> "1_0", displayID |-> "1_0"]

\* the versions a caller passes
Versions == {"1_0", "2_0"}

\* the names the file binds in the namespace of the module
FileNames ==
  {"hashlib", "pf", "version_index", "generateStackableID",
   "generateRecipeID", "generateDisplayableID"}

\* version-specific variant functions that may be bound in the namespace
VariantNames ==
  {"generateStackableID_2_0", "generateRecipeID_2_0",
   "generateDisplayableID_2_0", "generateDisplayID_2_0"}

\* what `raise "a string"` raises: the string where string exceptions
\* exist, TypeError where they do not
StringRaise == {"UnsupportedVersion", "TypeError"}

\* the characters of an identifier
Chars == {"a", "b"}

\* the identifiers of recipe inputs, as their characters
Idents == UNION {[1..n -> Chars] : n \in 1..MaxIdLen}

\* the lists of inputs generateRecipeID is called with
RecipeInputs == UNION {[1..n -> Idents] : n \in 0..MaxInputs}

RECURSIVE concat(_)
\* the bytes shaObj.update has been given, input after input
concat(inputs) ==
  IF inputs = <<>> THEN <<>> ELSE Head(inputs) \o concat(Tail(inputs))

\* shaObj.hexdigest(): a digest without collisions on the bytes given
hexdigest(bytes) == <<"sha1", bytes>>

IdReturn(v) == [kind |-> "id", value |-> v]
IdVariant(name) == [kind |-> "variant", value |-> name]
IdRaise(err) == [kind |-> "raise", value |-> err]

\* getattr(globals()['IDFactory'], name) inside the try: the name of the
\* function found, "" when the KeyError of globals()['IDFactory'] or the
\* AttributeError of getattr is caught
find_variant(ns, name) ==
  IF "IDFactory" \notin ns
  THEN ""
  ELSE IF name \in ns THEN name ELSE ""

\* the branch `if version != version_index[...]` of the three functions
dispatch(ns, prefix, version, build) ==
  IF find_variant(ns, prefix \o version) = ""
  THEN IdRaise(build)
  ELSE IdVariant(find_variant(ns, prefix \o version))

\* generateStackableID(inputf, version)
generateStackableID_version(inputf, version, ns, build) ==
  IF version # version_index.stackID
  THEN dispatch(ns, "generateStackableID_", version, build)
  ELSE IF generateStackableID(inputf) = None
       THEN IdRaise("KeyError")
       ELSE IdReturn(generateStackableID(inputf))

\* a generateRecipeID that digests the inputs whatever their order
generateRecipeID_unordered(inputs, version, ns, build) ==
  IF version # version_index.recipeID
  THEN dispatch(ns, "generateRecipeID_", version, build)
  ELSE IdReturn(<<"sha1", Range(inputs)>>)

\* generateRecipeID(inputs, version)
generateRecipeID(inputs, version, ns, build) ==
  IF version # version_index.recipeID
  THEN dispatch(ns, "generateRecipeID_", version, build)
  ELSE IdReturn(hexdigest(concat(inputs)))

\* generateDisplayableID(inputf, version)
generateDisplayableID(inputf, version, ns, build) ==
  IF version # version_index.displayID
  THEN dispatch(ns, "generateDisplayID_", version, build)
  ELSE IF "OBSID" \notin DOMAIN phu_of(inputf)
       THEN IdRaise("KeyError")
       ELSE IdReturn(hexdigest(<<phu_of(inputf).OBSID>>))

\* the calls made, with their inputs
IdCalls ==
  [func : {"generateRecipeID"}, version : Versions, input : RecipeInputs]
    \cup [func : {"generateStackableID", "generateDisplayableID"},
          version : Versions, input : {<<"f1">>, <<"x1">>}]

InitID ==
  /\ CfgIdle
  /\ ClsIdle
  /\ RunIdle
  /\ UiIdle
  /\ MgrIdle
  /\ idGlobals \in {FileNames \cup v : v \in SUBSET VariantNames}
  /\ idCall \in IdCalls
  /\ idResult = [kind |-> "none", value |-> <<>>]

\* a call has not been made yet
IdNotCalled(func) == idResult.kind = "none" /\ idCall.func = func

GenerateStackableID ==
  /\ IdNotCalled("generateStackableID")
  /\ \E build \in StringRaise :
       idResult' = generateStackableID_version(idCall.input, idCall.version,
                                               idGlobals, build)
  /\ UNCHANGED <<idGlobals, idCall, cfgVars, clsVars, runVars, uiVars,
               mgrVars>>

GenerateRecipeID ==
  /\ IdNotCalled("generateRecipeID")
  /\ \E build \in StringRaise :
       idResult' = generateRecipeID(idCall.input, idCall.version,
                                    idGlobals, build)
  /\ UNCHANGED <<idGlobals, idCall, cfgVars, clsVars, runVars, uiVars,
               mgrVars>>

GenerateDisplayableID ==
  /\ IdNotCalled("generateDisplayableID")
  /\ \E build \in StringRaise :
       idResult' = generateDisplayableID(idCall.input, idCall.version,
                                         idGlobals, build)
  /\ UNCHANGED <<idGlobals, idCall, cfgVars, clsVars, runVars, uiVars,
               mgrVars>>

NextID == GenerateStackableID \/ GenerateRecipeID \/ GenerateDisplayableID

SpecID == InitID /\ [][NextID]_vars

(***************************************************************************)
(* Claims about IDFactory (checked under SpecID)                           *)
(***************************************************************************)
\* the list q with the elements at i and j exchanged
Swap(q, i, j) ==
  [k \in DOMAIN q |-> IF k = i THEN q[j] ELSE IF k = j THEN q[i] ELSE q[k]]

\* generateRecipeID was called with the current version and returned
RecipeIdMade ==
  /\ idCall.func = "generateRecipeID"
  /\ idCall.version = version_index.recipeID
  /\ idResult.kind = "id"

\* the id of the inputs of the call with those at i and j exchanged
SwappedId(i, j) ==
  generateRecipeID(Swap(idCall.input, i, j), idCall.version, idGlobals,
                   "TypeError")

\* C15: the id generateRecipeID gives a list of inputs differs from the id
\* of the same list with two different identifiers exchanged.
C15_OrderSensitive ==
  RecipeIdMade =>
    \A i, j \in DOMAIN idCall.input :
       idCall.input[i] # idCall.input[j] => SwappedId(i, j) # idResult

\* C15 as amended: the id differs when the two identifiers exchanged are
\* different and of the same length.
C15_OrderSensitiveEqualLength ==
  RecipeIdMade =>
    \A i, j \in DOMAIN idCall.input :
       ( /\ idCall.input[i] # idCall.input[j]
         /\ Len(idCall.input[i]) = Len(idCall.input[j]) ) =>
          SwappedId(i, j) # idResult

C15_Witness ==
  /\ RecipeIdMade
  /\ idCall.input = << <<"a", "b">>, <<"b", "a">> >>
  /\ idResult.value = <<"sha1", <<"a", "b", "b", "a">> >>

\* the variant function named after the version of the call
VariantOf(func, version) == func \o "_" \o version

\* C16: a call with a version other than the current one is dispatched to
\* the variant function named after that version when it exists, and
\* raises the unsupported-version error, returning no id, when it does not.
C16_DispatchOrUnsupported ==
  (idResult.kind # "none" /\ idCall.version # "1_0") =>
     IF VariantOf(idCall.func, idCall.version) \in idGlobals
     THEN idResult = IdVariant(VariantOf(idCall.func, idCall.version))
     ELSE idResult = IdRaise("UnsupportedVersion")

\* the part of C16 that holds: such a call never returns an id
C16_NoIdForOtherVersion ==
  (idResult.kind # "none" /\ idCall.version # "1_0") =>
     idResult.kind = "raise"


(***************************************************************************)
(* geminidr/interactive/interactive.py: GIBandModel                        *)
(***************************************************************************)
\* largest x coordinate of the mouse and of a band edge
MaxX == 3

\* x coordinates in data space
X == 0..MaxX

\* the ids of the bands of one session
BandIds == {1, 2, 3}

Min(a, b) == IF a < b THEN a ELSE b

Max(a, b) == IF a > b THEN a ELSE b

\* the keys of self.bands
band_keys(bands) == {bands[i].key : i \in DOMAIN bands}

\* self.bands[key] = [lo, hi]: a key the dict has keeps its place, a new
\* key goes last
band_store(bands, key, lo, hi) ==
  IF key \in band_keys(bands)
  THEN [i \in DOMAIN bands |->
          IF bands[i].key = key THEN [key |-> key, lo |-> lo, hi |-> hi]
          ELSE bands[i]]
  ELSE Append(bands, [key |-> key, lo |-> lo, hi |-> hi])

\* del self.bands[key]
band_remove(bands, key) == SelectSeq(bands, LAMBDA b : b.key # key)

\* GIBandModel.adjust_band: comparing with None is a TypeError
adjust_band(m, band_id, start, stop) ==
  IF start = NoneX \/ stop = NoneX
  THEN [m EXCEPT !.err = "TypeError"]
  ELSE [m EXCEPT !.bands = band_store(m.bands, band_id, Min(start, stop),
                                      Max(start, stop))]

\* GIBandModel.delete_band
delete_band(m, band_id) ==
  IF band_id \notin band_keys(m.bands)
  THEN [m EXCEPT !.err = "KeyError"]
  ELSE [m EXCEPT !.bands = band_remove(m.bands, band_id)]

\* `aband[0] < bband[1] and aband[1] > bband[0]`
overlap(a, b) == a.lo < b.hi /\ a.hi > b.lo

\* a loop body that leaves bands overlapping in part as they are
finish_bands_pair_no_merge(st, i, j) ==
  LET a == st.dump[i]
      b == st.dump[j]
  IN  IF ~overlap(a, b) THEN st
      ELSE IF a.lo <= b.lo /\ a.hi >= b.hi
      THEN [st EXCEPT !.m = delete_band(st.m, b.key)]
      ELSE IF a.lo >= b.lo /\ a.hi <= b.hi
      THEN [st EXCEPT !.m = delete_band(st.m, a.key)]
      ELSE st

\* the body of the two loops of finish_bands for band_dump[i], band_dump[j]:
\* st.dump is band_dump, whose lists a merge changes in place, st.m the model
finish_bands_pair(st, i, j) ==
  LET a == st.dump[i]
      b == st.dump[j]
      lo == Min(a.lo, b.lo)
      hi == Max(a.hi, b.hi)
      adjusted == adjust_band(st.m, a.key, lo, hi)
  IN  IF ~overlap(a, b) THEN st
      ELSE IF a.lo <= b.lo /\ a.hi >= b.hi
      THEN [st EXCEPT !.m = delete_band(st.m, b.key)]
      ELSE IF a.lo >= b.lo /\ a.hi <= b.hi
      THEN [st EXCEPT !.m = delete_band(st.m, a.key)]
      ELSE [dump |-> [st.dump EXCEPT ![i] = [key |-> a.key, lo |-> lo,
                                              hi |-> hi]],
            m |-> IF adjusted.err # "" THEN adjusted
                  ELSE delete_band(adjusted, b.key)]

RECURSIVE finish_bands_loop(_, _, _)
\* `for i in range(len(band_dump)-1): for j in range(i+1, len(band_dump))`,
\* left at the first error raised
finish_bands_loop(st, i, j) ==
  IF st.m.err # "" \/ i > Len(st.dump) - 1 THEN st
  ELSE IF j > Len(st.dump) THEN finish_bands_loop(st, i + 1, i + 2)
  ELSE finish_bands_loop(finish_bands_pair(st, i, j), i, j + 1)

\* GIBandModel.finish_bands up to the calls of the listeners
finish_bands(m) == finish_bands_loop([dump |-> m.bands, m |-> m], 1, 2).m

\* `for listener in self.listeners: listener.finish_bands()`, reached when
\* nothing was raised: what the listeners find in the model
listeners_finish_bands(before, m) ==
  IF m.err # ""
  THEN [entered |-> TRUE, called |-> FALSE, before |-> before.bands,
        bands |-> <<>>]
  ELSE [entered |-> TRUE, called |-> TRUE, before |-> before.bands,
        bands |-> m.bands]

\* GIBandModel.find_band: the first band that holds x, as <<id, start, stop>>
find_band(m, x) ==
  LET hits == {i \in DOMAIN m.bands : m.bands[i].lo <= x /\ x <= m.bands[i].hi}
      first == CHOOSE i \in hits : \A k \in hits : i <= k
  IN  IF hits = {} THEN <<NoId, NoneX, NoneX>>
      ELSE <<m.bands[first].key, m.bands[first].lo, m.bands[first].hi>>

\* a call of the model starts with no error raised
Called(m) == [m EXCEPT !.err = ""]

InitBands ==
  /\ CfgIdle
  /\ ClsIdle
  /\ RunIdle
  /\ IdIdle
  /\ UiIdle
  /\ MgrIdle

BandsIdle ==
  UNCHANGED <<ctl, ap, am, band, ui, cfgVars, clsVars, runVars, idVars,
              mgrVars>>

AdjustBand ==
  /\ \E band_id \in BandIds, start \in X, stop \in X :
       bm' = adjust_band(Called(bm), band_id, start, stop)
  /\ notified' = NotNotified
  /\ BandsIdle

DeleteBand ==
  /\ \E band_id \in BandIds : bm' = delete_band(Called(bm), band_id)
  /\ notified' = NotNotified
  /\ BandsIdle

FinishBands ==
  /\ bm' = finish_bands(Called(bm))
  /\ notified' = listeners_finish_bands(bm, bm')
  /\ BandsIdle

NextBands == AdjustBand \/ DeleteBand \/ FinishBands

SpecBands == InitBands /\ [][NextBands]_vars

(***************************************************************************)
(* Claims about GIBandModel (checked under SpecBands)                      *)
(***************************************************************************)
\* two bands of a sequence of bands overlap
SomeOverlap(bands) ==
  \E i, j \in DOMAIN bands : i # j /\ overlap(bands[i], bands[j])

\* C20: when the listeners' finish_bands is called, no two bands left in
\* the model overlap, whatever the bands were before.
C20_NotifiedWithoutOverlap == notified.called => ~SomeOverlap(notified.bands)

\* listeners are called after two bands overlapping in part were merged
C20_Witness ==
  /\ notified.called
  /\ notified.before = <<[key |-> 1, lo |-> 0, hi |-> 2],
                         [key |-> 2, lo |-> 1, hi |-> 3]>>
  /\ notified.bands = <<[key |-> 1, lo |-> 0, hi |-> 3]>>

\* C26: finish_bands ends without raising whatever the bands are, and the
\* listeners' finish_bands is called.
C26_FinishNeverRaises == notified.entered => (bm.err = "" /\ notified.called)

\* the part of C26 that holds: finish_bands raises nothing but the KeyError
\* of deleting a band that is gone, and calls the listeners when it raises
\* nothing
C26_RaisesKeyErrorOnly ==
  notified.entered =>
    /\ bm.err \in {"", "KeyError"}
    /\ notified.called <=> bm.err = ""

(***************************************************************************)
(* geminidr/interactive/controls.py: the aperture model as ApertureTask    *)
(* calls it, ApertureTask and BandTask                                     *)
(***************************************************************************)
\* the aperture models a Controller is given: GIApertureModel of
\* interactive.py, whose add_aperture and adjust_aperture take fewer
\* arguments than ApertureTask passes and which has no find_closest and no
\* get_profile, or a model with the methods as ApertureTask calls them
ApertureModelKinds == {"GIApertureModel", "as_called"}

\* the ids of the apertures of one session
ApertureIds == {1}

\* what a handler of a task leaves: the task, its model, the value it
\* returned and the error it raised
Handled(t, m, ret) == [t |-> t, m |-> m, ret |-> ret /\ m.err = "", err |-> m.err]

\* aperture_model.add_aperture(x, x, x): the model with the new aperture
\* and the id returned
add_aperture(m, center, left, right) ==
  IF m.kind = "GIApertureModel"
  THEN [m |-> [m EXCEPT !.err = "TypeError"], id |-> NoId]
  ELSE [m |-> [m EXCEPT !.aperture_id = @ + 1,
                        !.aps = @ \cup {[id |-> m.aperture_id, c |-> center,
                                         l |-> left, r |-> right]}],
        id |-> m.aperture_id]

\* aperture_model.adjust_aperture(aperture_id, center, left, right)
adjust_aperture(m, aperture_id, center, left, right) ==
  IF m.kind = "GIApertureModel"
  THEN [m EXCEPT !.err = "TypeError"]
  ELSE [m EXCEPT !.aps = {a \in @ : a.id # aperture_id}
                           \cup {[id |-> aperture_id, c |-> center,
                                  l |-> left, r |-> right]}]

\* aperture_model.delete_aperture(aperture_id)
delete_aperture(m, aperture_id) ==
  IF m.kind = "GIApertureModel"
  THEN [m EXCEPT !.aperture_id = @ - 1]
  ELSE [m EXCEPT !.aps = {a \in @ : a.id # aperture_id}]

\* what aperture_model.find_closest(x) may return, as <<id, center, left,
\* right>>: one of the apertures of the model, four None without any
find_closest(m) ==
  IF m.aps = {} THEN {<<NoId, NoneX, NoneX, NoneX>>}
  ELSE {<<a.id, a.c, a.l, a.r>> : a \in m.aps}

\* ApertureTask.start
ap_start(t, x) ==
  [t EXCEPT !.last_x = x, !.center = NoneX, !.left = NoneX, !.right = NoneX,
            !.id = NoId, !.mode = "location"]

\* ApertureTask.stop_aperture (and ApertureTask.stop)
stop_aperture(t) == [t EXCEPT !.center = NoneX, !.id = NoId, !.mode = ""]

\* ApertureTask.start_aperture
start_aperture(t, m, x) ==
  LET placed == [t EXCEPT !.center = x, !.left = x, !.right = x]
      added == add_aperture(m, x, x, x)
  IN  IF added.m.err # "" THEN Handled(placed, added.m, FALSE)
      ELSE Handled([placed EXCEPT !.id = added.id, !.mode = "width"],
                   added.m, FALSE)

\* the branches of ApertureTask.handle_key for '[', ']' and 'l'
ap_set_mode(t, m, mode, found) ==
  IF t.center # NoneX THEN Handled([t EXCEPT !.mode = mode], m, FALSE)
  ELSE IF m.kind = "GIApertureModel"
  THEN Handled(t, [m EXCEPT !.err = "AttributeError"], FALSE)
  ELSE LET got == [t EXCEPT !.id = found[1], !.center = found[2],
                            !.left = found[3], !.right = found[4]]
       IN  IF got.id = NoId THEN Handled(got, m, FALSE)
           ELSE Handled([got EXCEPT !.mode = mode], m, FALSE)

\* ApertureTask.handle_key; found is what find_closest returns and peak
\* the first peak pinpoint_peaks finds, None without one
ap_handle_key(t, m, key, found, peak) ==
  CASE key = "a" ->
         IF t.center = NoneX THEN start_aperture(t, m, t.last_x)
         ELSE Handled(stop_aperture(t), m, TRUE)
    [] key = "f" ->
         IF t.center # NoneX THEN Handled(t, m, FALSE)
         ELSE IF m.kind = "GIApertureModel"
         THEN Handled(t, [m EXCEPT !.err = "AttributeError"], FALSE)
         ELSE start_aperture(t, m, IF peak # NoneX THEN peak ELSE t.last_x)
    [] key = "[" -> ap_set_mode(t, m, "left", found)
    [] key = "]" -> ap_set_mode(t, m, "right", found)
    [] key = "l" -> ap_set_mode(t, m, "location", found)
    [] key = "d" ->
         Handled(stop_aperture(t),
                 IF t.center # NoneX THEN delete_aperture(m, t.id) ELSE m,
                 TRUE)
    [] OTHER -> Handled(t, m, FALSE)

Abs(n) == IF n < 0 THEN -n ELSE n

\* the edges a mouse move to x gives the aperture in mode 'left' when the
\* edge follows the mouse wherever it is
moved_left_unbounded(t, x) ==
  LET width == Abs(t.center - x)
  IN  CASE t.mode = "width" ->
             [t EXCEPT !.left = t.center - width, !.right = t.center + width]
        [] t.mode = "left" -> [t EXCEPT !.left = x]
        [] t.mode = "right" -> [t EXCEPT !.right = Max(t.center, x)]
        [] t.mode = "location" ->
             [t EXCEPT !.center = x, !.right = Max(t.right, x),
                       !.left = Min(t.left, x)]
        [] OTHER -> t

\* the edges a mouse move to x gives the aperture, by mode
moved(t, x) ==
  LET width == Abs(t.center - x)
  IN  CASE t.mode = "width" ->
             [t EXCEPT !.left = t.center - width, !.right = t.center + width]
        [] t.mode = "left" -> [t EXCEPT !.left = Min(t.center, x)]
        [] t.mode = "right" -> [t EXCEPT !.right = Max(t.center, x)]
        [] t.mode = "location" ->
             [t EXCEPT !.center = x, !.right = Max(t.right, x),
                       !.left = Min(t.left, x)]
        [] OTHER -> t

\* ApertureTask.handle_mouse: `if self.aperture_center:` is false for None
\* and for 0; last_x is set when adjust_aperture has returned
ap_handle_mouse(t, m, x) ==
  IF t.center = NoneX \/ t.center = 0
  THEN Handled([t EXCEPT !.last_x = x], m, FALSE)
  ELSE LET adjusted == adjust_aperture(m, t.id, moved(t, x).center,
                                       moved(t, x).left, moved(t, x).right)
       IN  IF adjusted.err # "" THEN Handled(moved(t, x), adjusted, FALSE)
           ELSE Handled([moved(t, x) EXCEPT !.last_x = x], adjusted, FALSE)


\* BandTask.start: find_band compares x with the edges of each band, a
\* TypeError when x is None
band_start(t, m, x) ==
  LET found == find_band(m, x)
      edge == IF (x - found[2]) < (found[3] - x) THEN found[3] ELSE found[2]
  IN  IF x = NoneX /\ m.bands # <<>>
      THEN Handled(t, [m EXCEPT !.err = "TypeError"], FALSE)
      ELSE IF x # NoneX /\ found[1] # NoId
      THEN Handled([id |-> found[1], edge |-> edge],
                   adjust_band(m, found[1], x, edge), FALSE)
      ELSE Handled([id |-> m.band_id, edge |-> x],
                   [m EXCEPT !.band_id = @ + 1], FALSE)

\* BandTask.stop
band_stop(t, m) == Handled(NewBandTask, finish_bands(m), FALSE)

\* BandTask.handle_key
band_handle_key(t, m, key) ==
  CASE key = "b" -> Handled(NewBandTask, finish_bands(m), TRUE)
    [] key = "d" ->
         IF delete_band(m, t.id).err # ""
         THEN Handled(t, delete_band(m, t.id), FALSE)
         ELSE Handled(NewBandTask, finish_bands(delete_band(m, t.id)), TRUE)
    [] OTHER -> Handled(t, m, FALSE)

\* BandTask.handle_mouse
band_handle_mouse(t, m, x) == Handled(t, adjust_band(m, t.id, x, t.edge), FALSE)

(***************************************************************************)
(* geminidr/interactive/controls.py: Controller                            *)
(***************************************************************************)
\* the keys the user presses
Keys == {"a", "b", "d", "f", "[", "]", "l"}

\* the tasks a Controller registers: 'a' with an aperture model, 'b' with
\* a band model
TaskSets == {{"a"}, {"b"}, {"a", "b"}}

InitUI ==
  /\ CfgIdle
  /\ ClsIdle
  /\ RunIdle
  /\ IdIdle
  /\ MgrIdle
  /\ \E tasks \in TaskSets, document \in BOOLEAN :
       ctl = [tasks |-> tasks, task |-> "", x |-> NoneX, active |-> FALSE,
              inside |-> FALSE, document |-> document]
  /\ ap = NewApertureTask
  /\ \E kind \in ApertureModelKinds :
       am = [NewApertureModel EXCEPT !.kind = kind]
  /\ band = NewBandTask
  /\ bm = NewBandModel
  /\ ui = NoEvent
  /\ notified = NotNotified

\* the only task of a Controller with one task
the_task(tasks) == CHOOSE k \in tasks : TRUE

\* task.start(self.x, self.y) of the task named
task_start(name) ==
  IF name = "a" THEN Handled(ap_start(ap, ctl.x), Called(am), FALSE)
  ELSE band_start(band, Called(bm), ctl.x)

\* task.stop() of the task named
task_stop(name) ==
  IF name = "a" THEN Handled(stop_aperture(ap), Called(am), FALSE)
  ELSE band_stop(band, Called(bm))

\* the task named and its model are left as the handler left them, the
\* other task and model as they were
TaskLeft(name, res) ==
  /\ ap' = IF name = "a" THEN res.t ELSE ap
  /\ am' = IF name = "a" THEN res.m ELSE am
  /\ band' = IF name = "b" THEN res.t ELSE band
  /\ bm' = IF name = "b" THEN res.m ELSE bm

\* the listeners of the band model hear of finish_bands when it ends
\* without an error
Listeners(name, stops, before, res) ==
  notified' = IF name = "b" /\ stops
              THEN listeners_finish_bands(before, res.m)
              ELSE NotNotified

\* the values the id counter of a model takes in one session
CounterRange(ids) == (1 - Cardinality(ids))..(Cardinality(ids) + 1)

\* the id counters of the models stay within the ids of the session
WithinSession ==
  /\ am'.aperture_id \in CounterRange(ApertureIds)
  /\ bm'.band_id \in CounterRange(BandIds)

UiIdleRest == UNCHANGED <<cfgVars, clsVars, runVars, idVars, mgrVars>>


\* the number of events a Controller with several tasks is followed for
MaxEvents == 6

\* a Controller with one task is followed without end, one with several
\* tasks for MaxEvents events
SessionGoesOn == Cardinality(ctl.tasks) = 1 \/ ui.n < MaxEvents

\* the record of the event handled
Event(event, key, res) ==
  [event |-> event, key |-> key, before |-> ctl.task, ret |-> res.ret,
   err |-> res.err, n |-> IF Cardinality(ctl.tasks) = 1 THEN 0 ELSE ui.n + 1]

\* an event that reaches no task
NoTask == [ret |-> FALSE, err |-> ""]

\* Controller.on_mouse_enter
MouseEnter ==
  /\ ~ctl.inside
  /\ IF Cardinality(ctl.tasks) = 1
     THEN LET name == the_task(ctl.tasks)
              res == task_start(name)
          IN  /\ ctl' = [ctl EXCEPT !.inside = TRUE, !.active = TRUE,
                                    !.task = name]
              /\ TaskLeft(name, res)
              /\ ui' = Event("enter", "", res)
     ELSE /\ ctl' = [ctl EXCEPT !.inside = TRUE, !.active = TRUE]
          /\ UNCHANGED <<ap, am, band, bm>>
          /\ ui' = Event("enter", "", NoTask)
  /\ notified' = NotNotified
  /\ WithinSession
  /\ SessionGoesOn
  /\ UiIdleRest

\* Controller.on_mouse_leave
MouseLeave ==
  /\ ctl.inside
  /\ IF ctl.active /\ ctl.task # ""
     THEN LET res == task_stop(ctl.task)
          IN  /\ ctl' = IF res.err # "" THEN [ctl EXCEPT !.inside = FALSE]
                        ELSE [ctl EXCEPT !.inside = FALSE, !.active = FALSE,
                                         !.task = ""]
              /\ TaskLeft(ctl.task, res)
              /\ ui' = Event("leave", "", res)
              /\ Listeners(ctl.task, TRUE, bm, res)
     ELSE /\ ctl' = [ctl EXCEPT !.inside = FALSE, !.active = FALSE]
          /\ UNCHANGED <<ap, am, band, bm>>
          /\ ui' = Event("leave", "", NoTask)
          /\ notified' = NotNotified
  /\ WithinSession
  /\ SessionGoesOn
  /\ UiIdleRest

\* task.handle_mouse(x, y) of the task named
task_handle_mouse(name, x) ==
  IF name = "a" THEN ap_handle_mouse(ap, Called(am), x)
  ELSE band_handle_mouse(band, Called(bm), x)

\* Controller.on_mouse_move and Controller.handle_mouse
MouseMove ==
  /\ ctl.inside
  /\ \E x \in X :
       IF ctl.task # ""
       THEN LET res == task_handle_mouse(ctl.task, x)
            IN  /\ ctl' = [ctl EXCEPT !.x = x,
                                      !.task = IF res.ret THEN "" ELSE @]
                /\ TaskLeft(ctl.task, res)
                /\ ui' = Event("mouse", "", res)
       ELSE /\ ctl' = [ctl EXCEPT !.x = x]
            /\ UNCHANGED <<ap, am, band, bm>>
            /\ ui' = Event("mouse", "", NoTask)
  /\ notified' = NotNotified
  /\ WithinSession
  /\ SessionGoesOn
  /\ UiIdleRest

\* what find_closest may return to the branch of ApertureTask.handle_key
\* that asks for it
closest_asked(name, key) ==
  IF name = "a" /\ key \in {"[", "]", "l"} /\ ap.center = NoneX
  THEN find_closest(am)
  ELSE {<<NoId, NoneX, NoneX, NoneX>>}

\* the first peak pinpoint_peaks may find for key 'f', None without one
peaks_asked(name, key) ==
  IF name = "a" /\ key = "f" /\ ap.center = NoneX
  THEN X \cup {NoneX}
  ELSE {NoneX}

\* Controller.handle_key with a task active: the key goes to the task
KeyToTask ==
  /\ ctl.active /\ ctl.document /\ ctl.task # ""
  /\ \E key \in Keys :
     \E found \in closest_asked(ctl.task, key), peak \in peaks_asked(ctl.task, key) :
       LET res == IF ctl.task = "a"
                  THEN ap_handle_key(ap, Called(am), key, found, peak)
                  ELSE band_handle_key(band, Called(bm), key)
       IN  /\ ctl' = [ctl EXCEPT !.task = IF res.ret /\ Cardinality(ctl.tasks) > 1
                                          THEN "" ELSE @]
           /\ TaskLeft(ctl.task, res)
           /\ ui' = Event("key", key, res)
           /\ Listeners(ctl.task,
                        key = "b" \/ (key = "d" /\ band.id \in band_keys(bm.bands)),
                        IF key = "d" THEN delete_band(bm, band.id) ELSE bm,
                        res)
  /\ WithinSession
  /\ SessionGoesOn
  /\ UiIdleRest

\* Controller.handle_key with no task active: the key selects a task
KeySelectsTask ==
  /\ ctl.active /\ ctl.document /\ ctl.task = ""
  /\ \E key \in Keys :
       IF key \in ctl.tasks
       THEN LET res == task_start(key)
            IN  /\ ctl' = [ctl EXCEPT !.task = key]
                /\ TaskLeft(key, res)
                /\ ui' = Event("key", key, res)
       ELSE /\ UNCHANGED <<ctl, ap, am, band, bm>>
            /\ ui' = Event("key", key, NoTask)
  /\ notified' = NotNotified
  /\ WithinSession
  /\ SessionGoesOn
  /\ UiIdleRest

NextUI == MouseEnter \/ MouseLeave \/ MouseMove \/ KeyToTask \/ KeySelectsTask

SpecUI == InitUI /\ [][NextUI]_vars


(***************************************************************************)
(* Claims about the Controller and its tasks (checked under SpecUI)        *)
(***************************************************************************)
\* the handler of the active task returned True for the last key or move
TaskEnded == ui.event \in {"key", "mouse"} /\ ui.before # "" /\ ui.ret

\* C17: whenever handle_key or handle_mouse of the active task returns
\* True the Controller is inactive again (task is None), with one task
\* registered as with several.
C17_InactiveWhenTaskEnds == TaskEnded => ctl.task = ""

\* the part of C17 that holds: a Controller with several tasks is inactive
\* when the handler of its active task has returned True
C17_InactiveWithSeveralTasks ==
  (TaskEnded /\ Cardinality(ctl.tasks) > 1) => ctl.task = ""

\* C18: while ApertureTask edits an aperture its edges are on their side
\* of the location, left <= aperture_center <= right, in every mode.
C18_EdgesAroundCenter ==
  ap.center # NoneX => (ap.left <= ap.center /\ ap.center <= ap.right)

\* the left edge alone was dragged away from the location of an aperture
\* that has a width
C18_Witness ==
  /\ ui.event = "mouse"
  /\ ui.err = ""
  /\ ap.mode = "left"
  /\ ap.left < ap.center - 1
  /\ ap.center < ap.right

\* the key 'd' was handed to BandTask
DeletePressed == ui.event = "key" /\ ui.key = "d" /\ ui.before = "b"

\* C19: 'd' handed to BandTask deletes or cancels the band and ends the
\* task, and raises nothing, whatever the state of the task.
C19_DeleteNeverRaises ==
  DeletePressed => (ui.err = "" /\ ui.ret /\ band = NewBandTask)

\* the part of C19 that holds: 'd' ends the task without an error when the
\* model has the band of the task and the bands left do not make
\* finish_bands raise
C19_DeleteOfStoredBand ==
  (DeletePressed /\ ui.err = "") => (ui.ret /\ band = NewBandTask)

(***************************************************************************)
(* gempy/managers.py: ScienceFunctionManager.startUp                       *)
(***************************************************************************)

\* the longest adinput list and the longest output_names list tried
MaxAds == 2

MaxNames == 3

\* gt.fileNameUpdater as managers.py calls it: strip drops the suffixes of
\* the input's name, prefix goes in front and suffix is post pended
fileNameUpdater(infilename, prefix, suffix, strip) ==
  FileName(prefix, infilename.base,
           (IF strip THEN <<>> ELSE infilename.suf)
             \o (IF suffix = NoSuffix THEN <<>> ELSE <<suffix>>))

\* the file names of the AstroData objects handed in
InputNames == {FileName("", "N1", <<>>), FileName("", "N2", <<"_bias">>)}

\* the output names a caller supplies
OutputNames == {FileName("", "out1", <<>>), FileName("", "out2", <<>>)}

SeqsUpTo(S, n) == UNION {[1..k -> S] : k \in 0..n}

\* adinput: None, a single AstroData object or a list of them
AdInputs ==
  {[kind |-> "None", v |-> <<>>]}
    \cup {[kind |-> "single", v |-> <<a>>] : a \in InputNames}
    \cup {[kind |-> "list", v |-> s] : s \in SeqsUpTo(InputNames, MaxAds)}

\* output_names: None, a single string or a list of strings
OutputNamesArgs ==
  {[kind |-> "None", v |-> <<>>]}
    \cup {[kind |-> "str", v |-> <<o>>] : o \in OutputNames}
    \cup {[kind |-> "list", v |-> s] : s \in SeqsUpTo(OutputNames, MaxNames)}

Suffixes == {NoSuffix, "_out"}

\* startUp returns (self.adinput, self.output_names, self.log)
StartUpReturn(given, adinput, output_names) ==
  [called |-> TRUE, err |-> "", cause |-> "", given |-> given,
   adinput |-> adinput, output_names |-> output_names]

\* the except block of startUp: log is not a name of the module, so
\* log.critical raises NameError in place of the error caught
StartUpExcept(given, cause) ==
  [called |-> TRUE, err |-> "NameError", cause |-> cause, given |-> given,
   adinput |-> <<>>, output_names |-> <<>>]

\* the names startUp appends: one per input, from the input's file name
appended_names(adinput, suffix) ==
  [i \in 1..Len(adinput) |->
     fileNameUpdater(adinput[i], "", suffix, FALSE)]

\* what startUp returns or raises
startUp(self) ==
  LET adinput == self.adinput.v
      output_names == self.output_names.v
  IN IF self.adinput.kind = "None"
          \/ (self.adinput.kind = "list" /\ Len(adinput) = 0)
     THEN StartUpExcept(self, "InputError")
     ELSE IF Len(output_names) = 0
     THEN IF self.suffix # NoSuffix
          THEN StartUpReturn(self, adinput,
                             output_names \o appended_names(adinput, self.suffix))
          ELSE StartUpExcept(self, "OutputError")
     ELSE IF Len(output_names) = 1
     THEN StartUpExcept(self, "NameError")
     ELSE IF Len(adinput) = Len(output_names)
     THEN StartUpReturn(self, adinput,
                        output_names \o appended_names(adinput, NoSuffix))
     ELSE StartUpExcept(self, "Error")

\* the attributes startUp leaves in the manager: adinput and output_names
\* are cast to lists before anything can be raised on them
startUp_self(self) ==
  LET ret == startUp(self)
      bad_input == ret.cause = "InputError"
  IN [adinput |-> IF self.adinput.kind = "single"
                  THEN [kind |-> "list", v |-> self.adinput.v]
                  ELSE self.adinput,
      output_names |-> IF bad_input THEN self.output_names
                       ELSE [kind |-> "list",
                             v |-> IF ret.err = "" THEN ret.output_names
                                   ELSE self.output_names.v],
      suffix |-> self.suffix]

InitStartUp ==
  /\ CfgIdle
  /\ ClsIdle
  /\ RunIdle
  /\ IdIdle
  /\ UiIdle
  /\ sfmArgs \in [adinput : AdInputs, output_names : OutputNamesArgs,
                  suffix : Suffixes]
  /\ sfmRet = NotStarted
  /\ cl = ClassCLManager
  /\ ads = <<>>
  /\ disk = {}
  /\ clRet = NoCLCall

StartUp ==
  /\ sfmRet' = startUp(sfmArgs)
  /\ sfmArgs' = startUp_self(sfmArgs)
  /\ UNCHANGED <<cl, ads, disk, clRet, cfgVars, clsVars, runVars, idVars,
                 uiVars>>

NextStartUp == StartUp

SpecStartUp == InitStartUp /\ [][NextStartUp]_vars

\* C23: startUp returns one output name per input, the supplied
\* output_names taking precedence over suffix; more than one output name
\* with a count other than the number of inputs raises an error, and so do
\* a missing or empty adinput and the absence of both suffix and
\* output_names.
C23_OneNamePerInput ==
  sfmRet.called =>
    LET given == sfmRet.given
        names == given.output_names.v
    IN /\ sfmRet.err = "" =>
            /\ Len(sfmRet.output_names) = Len(sfmRet.adinput)
            /\ names # <<>> => sfmRet.output_names = names
       /\ (Len(names) > 1 /\ Len(names) # Len(given.adinput.v))
            => sfmRet.err # ""
       /\ given.adinput.v = <<>> => sfmRet.err # ""
       /\ (names = <<>> /\ given.suffix = NoSuffix) => sfmRet.err # ""

\* the part of C23 that holds: the error cases raise, and the names made
\* from suffix alone are one per input
C23_SuffixOnlyOneNamePerInput ==
  sfmRet.called =>
    LET given == sfmRet.given
        names == given.output_names.v
    IN /\ (sfmRet.err = "" /\ names = <<>>)
            => Len(sfmRet.output_names) = Len(sfmRet.adinput)
       /\ (sfmRet.err = "" /\ names # <<>>)
            => Len(sfmRet.output_names) = 2 * Len(sfmRet.adinput)
       /\ (Len(names) > 1 /\ Len(names) # Len(given.adinput.v))
            => sfmRet.err # ""
       /\ Len(names) = 1 => sfmRet.err # ""
       /\ given.adinput.v = <<>> => sfmRet.err # ""
       /\ (names = <<>> /\ given.suffix = NoSuffix) => sfmRet.err # ""

(***************************************************************************)
(* gempy/managers.py: CLManager                                            *)
(***************************************************************************)

\* the most arrays IRAF is expected to write
MaxArrayOuts == 1

\* the most calls of the *Files functions on one manager
MaxFilesCalls == 2

\* self.prefix, 'tmp' + the process id + funcName: one value in a process
Prefix == "tmp"

\* the file behind self.templog
TempLog == FileName("", "templog", <<>>)

\* str(count) in the names of the array files
str(count) == <<"1", "2", "3">>[count]

\* an AstroData object of the caller: file name, whether its types have
\* 'GMOS', and the keys of its PHU
AdObject(filename, gmos, is_prepared) ==
  [filename |-> filename, gmos |-> gmos,
   keys |-> IF is_prepared THEN {"GPREPARE"} ELSE {}]

\* the two objects a caller holds; their names may strip to one name
CallerAds ==
  {<<AdObject(FileName("", "N1", <<"_bias">>), g, p),
     AdObject(FileName("", b, <<"_flat">>), TRUE, TRUE)>> :
       g \in BOOLEAN, p \in BOOLEAN, b \in {"N1", "N2"}}
    \ {<<AdObject(FileName("", "N1", <<"_bias">>), FALSE, FALSE),
         AdObject(FileName("", b, <<"_flat">>), TRUE, TRUE)>> :
           b \in {"N1", "N2"}}

\* the arguments of CLManager(...); the images are given by their place in
\* the caller's objects, an array by its lines
CLArgsAll ==
  [imageIns : {NoList, AList(<<1>>), AList(<<1, 2>>)},
   refIns : {NoList, AList(<<2>>)},
   arrayIns : {NoList, AList(<<"lines">>)},
   suffix : {"_out"},
   imageOutsNames : {[kind |-> "None", v |-> <<>>],
                     [kind |-> "str", v |-> <<FileName("", "out1", <<>>)>>],
                     [kind |-> "list", v |-> <<FileName("", "N1", <<>>)>>]},
   refOutsNames : {[kind |-> "None", v |-> <<>>]},
   numArrayOuts : 0..MaxArrayOuts,
   combinedImages : BOOLEAN]

\* the calls tried: reference images and arrays come together, and
\* combinedImages is set where it is not overridden by imageOutsNames
CLArgs ==
  {a \in CLArgsAll :
     /\ a.refIns.some = a.arrayIns.some
     /\ a.numArrayOuts # 0 => a.arrayIns.some
     /\ a.combinedImages => a.imageOutsNames.kind = "None"}

\* the header of the files IRAF wrote, as AstroData loads them
OutputHeaders ==
  {[gmos |-> FALSE, keys |-> {}],
   [gmos |-> TRUE, keys |-> {"OBSMODE"}],
   [gmos |-> TRUE, keys |-> {}]}

\* the argument 'type' of the *Files functions
FileTypes == {"", "list", "listFile"}

is_prepared(ad) == "GPREPARE" \in ad.keys \/ "PREPARE" \in ad.keys

obsmodeAdd(ad) ==
  IF ad.gmos THEN [ad EXCEPT !.keys = @ \cup {"OBSMODE"}] ELSE ad

\* del of a key the header does not have raises KeyError
obsmodeDel(ad) ==
  IF ~ ad.gmos THEN [err |-> "", ad |-> ad]
  ELSE IF "OBSMODE" \in ad.keys
  THEN [err |-> "", ad |-> [ad EXCEPT !.keys = @ \ {"OBSMODE"}]]
  ELSE [err |-> "KeyError", ad |-> ad]

\* the names preCLwrites gives the temporary copies of the input images
image_disk_names(ins, objs) ==
  [i \in 1..Len(ins) |->
     fileNameUpdater(objs[ins[i]].filename, Prefix, NoSuffix, TRUE)]

array_names(n, what) ==
  [i \in 1..n |-> FileName(Prefix, what, <<str(i), ".txt">>)]

\* preCLwrites: OBSMODE goes into the caller's objects, the copies go to
\* disk under their temporary names
preCLwrites(self, objs, d) ==
  LET touched == Range(self.imageIns.v) \cup Range(self.refIns.v)
      imageNames == image_disk_names(self.imageIns.v, objs)
      refNames == image_disk_names(self.refIns.v, objs)
      arrayNames == array_names(Len(self.arrayIns.v), "_arrayIn_")
  IN [self |->
        [self EXCEPT
           !.imageInsCLdiskNames =
              IF self.imageIns.some THEN AList(imageNames) ELSE @,
           !.refInsCLdiskNames =
              IF self.refIns.some THEN AList(refNames) ELSE @,
           !.arrayInsCLdiskNames =
              IF self.arrayIns.some THEN AList(arrayNames) ELSE @,
           !.arrayOutsNames =
              IF self.numArrayOuts # 0
              THEN AList(array_names(self.numArrayOuts, "_arrayOut_"))
              ELSE @],
      ads |-> [i \in DOMAIN objs |->
                 IF i \in touched THEN obsmodeAdd(objs[i]) ELSE objs[i]],
      disk |-> d \cup Range(imageNames) \cup Range(refNames)
                 \cup Range(arrayNames)]

\* CLManager.__init__
CLManager_init(args, objs, d) ==
  LET given == Range(args.imageIns.v) \cup Range(args.refIns.v)
      status == \A i \in given : is_prepared(objs[i])
      early == [ClassCLManager EXCEPT !.made = TRUE,
                                      !.imageIns = args.imageIns,
                                      !.refIns = args.refIns,
                                      !.status = status]
  IN IF ~ status
     THEN [self |-> early, ads |-> objs, disk |-> d]
     ELSE preCLwrites([early EXCEPT !.templog = TRUE,
                                    !.suffix = args.suffix,
                                    !.imageOutsNames = args.imageOutsNames,
                                    !.refOutsNames = args.refOutsNames,
                                    !.combinedImages = args.combinedImages,
                                    !.arrayIns = args.arrayIns,
                                    !.numArrayOuts = args.numArrayOuts],
                      objs, d \cup {TempLog})

\* gt.listFileMaker as managers.py uses it: the file it writes has the
\* name it returns
listFileMaker(listName) == FileName("", listName, <<>>)

\* the end of every *Files function: what 'type' asks for
files_return(self, d, type, field, listName) ==
  IF type = ""
  THEN [self |-> self, disk |-> d, err |-> "ManagersError"]
  ELSE IF type = "listFile"
  THEN [self |-> [self EXCEPT ![field] = listFileMaker(listName)],
        disk |-> d \cup {listFileMaker(listName)}, err |-> ""]
  ELSE [self |-> self, disk |-> d, err |-> ""]

imageInsFiles(self, d, type) ==
  files_return(self, d, type, "imageInsListName", "imageList")

refInsFiles(self, d, type) ==
  files_return(self, d, type, "refInsListName", "refList")

arrayInsFiles(self, d, type) ==
  files_return(self, d, type, "arrayInsListName", "arrayList")

arrayOutsFiles(self, d, type) ==
  files_return(self, d, type, "arrayOutsListName", "arrayOutsList")

\* the names imageOutsFiles and refOutsFiles make from the inputs
suffixed_names(ins, objs, suffix) ==
  [i \in 1..Len(ins) |->
     fileNameUpdater(objs[ins[i]].filename, "", suffix, FALSE)]

imageOutsFiles(self, objs, d, type) ==
  LET auto == self.imageOutsNames.kind = "None"
      names ==
        IF ~ auto THEN self.imageOutsNames.v
        ELSE IF self.suffix = NoSuffix THEN <<>>
        ELSE IF self.combinedImages
        THEN SubSeq(suffixed_names(self.imageIns.v, objs, self.suffix), 1, 1)
        ELSE suffixed_names(self.imageIns.v, objs, self.suffix)
      set == [self EXCEPT !.imageOutsNames = [kind |-> "list", v |-> names]]
  IN IF auto /\ self.suffix # NoSuffix /\ ~ self.imageIns.some
     THEN [self |-> [self EXCEPT !.imageOutsNames =
                                    [kind |-> "list", v |-> <<>>]],
           disk |-> d, err |-> "TypeError"]
     ELSE files_return(set, d, type, "imageOutsListName", "imageOutsList")

refOutsFiles(self, objs, d, type) ==
  LET auto == self.refOutsNames.kind = "None"
      names ==
        IF ~ auto THEN self.refOutsNames.v
        ELSE IF self.suffix = NoSuffix THEN <<>>
        ELSE suffixed_names(self.refIns.v, objs, self.suffix)
      set == [self EXCEPT !.refOutsNames = [kind |-> "list", v |-> names]]
  IN IF auto /\ self.suffix # NoSuffix /\ ~ self.refIns.some
     THEN [self |-> [self EXCEPT !.refOutsNames =
                                    [kind |-> "list", v |-> <<>>]],
           disk |-> d, err |-> "TypeError"]
     ELSE files_return(set, d, type, "refOutsListName", "refOutsList")

\* tmpname = self.prefix + name
tmp_names(names) ==
  [i \in 1..Len(names) |-> FileName(Prefix, names[i].base, names[i].suf)]

\* `for name in self.imageOutsNames`: a string that was never cast to a
\* list gives its letters
iterated(names) ==
  IF names.kind = "str" THEN <<FileName("", "letter", <<>>)>> ELSE names.v

\* the files IRAF is asked to write
ExpectedOuts(self) ==
  Range(tmp_names(IF self.imageOutsNames.kind = "list"
                    THEN self.imageOutsNames.v ELSE <<>>))
    \cup Range(tmp_names(IF self.refOutsNames.kind = "list"
                           THEN self.refOutsNames.v ELSE <<>>))
    \cup Range(self.arrayOutsNames.v)

\* the steps of postCLloads, in the order of the code
steps_of(op, names) == [i \in 1..Len(names) |-> [op |-> op, name |-> names[i]]]

\* list_step without its os.remove: the list files are left on disk
list_step_kept(listName) == <<>>

list_step(listName) ==
  IF listName = NoName THEN <<>> ELSE steps_of("remove", <<listName>>)

outs_steps(names, listName) ==
  IF names.kind = "None" THEN <<>>
  ELSE steps_of("load", tmp_names(iterated(names))) \o list_step(listName)

ins_steps(ins, names, listName) ==
  IF ~ ins.some THEN <<>>
  ELSE IF ~ names.some THEN steps_of("iterate None", <<NoName>>)
  ELSE steps_of("remove", names.v) \o list_step(listName)

postCLloads_steps(self) ==
  outs_steps(self.imageOutsNames, self.imageOutsListName)
    \o outs_steps(self.refOutsNames, self.refOutsListName)
    \o (IF self.arrayOutsNames.some
        THEN steps_of("read", self.arrayOutsNames.v)
               \o list_step(self.arrayOutsListName)
        ELSE <<>>)
    \o ins_steps(self.imageIns, self.imageInsCLdiskNames,
                 self.imageInsListName)
    \o ins_steps(self.refIns, self.refInsCLdiskNames, self.refInsListName)
    \o ins_steps(self.arrayIns, self.arrayInsCLdiskNames,
                 self.arrayInsListName)

RECURSIVE postCLloads_run(_, _, _, _)

\* the steps are taken until one raises: a file that is not there cannot
\* be opened or removed, an output without OBSMODE is not removed
postCLloads_run(steps, d, out, loaded) ==
  IF steps = <<>>
  THEN [func |-> "finishCL", err |-> "", disk |-> d, loaded |-> loaded]
  ELSE LET s == Head(steps)
           raise(e) == [func |-> "finishCL", err |-> e, disk |-> d,
                        loaded |-> loaded]
       IN IF s.op = "iterate None" THEN raise("TypeError")
          ELSE IF s.name \notin d
          THEN raise(IF s.op = "remove" THEN "OSError" ELSE "IOError")
          ELSE IF s.op = "load" /\ obsmodeDel(out).err # ""
          THEN raise(obsmodeDel(out).err)
          ELSE postCLloads_run(Tail(steps), d \ {s.name}, out,
                               IF s.op = "remove" THEN loaded
                               ELSE loaded \cup {s.name})

postCLloads(self, d, out) == postCLloads_run(postCLloads_steps(self), d, out, {})

InitCL ==
  /\ CfgIdle
  /\ ClsIdle
  /\ RunIdle
  /\ IdIdle
  /\ UiIdle
  /\ sfmArgs = NoScienceFunctionManager
  /\ sfmRet = NotStarted
  /\ cl = ClassCLManager
  /\ ads \in CallerAds
  /\ disk = {}
  /\ clRet = NoCLCall

CLIdleRest ==
  UNCHANGED <<sfmArgs, sfmRet, cfgVars, clsVars, runVars, idVars, uiVars>>

NewCLManager ==
  /\ ~ cl.made
  /\ \E args \in CLArgs :
       LET new == CLManager_init(args, ads, disk)
       IN /\ cl' = new.self
          /\ ads' = new.ads
          /\ disk' = new.disk
  /\ clRet' = [NoCLCall EXCEPT !.func = "CLManager"]
  /\ CLIdleRest

\* the caller goes on when status is True, until it has called finishCL
InUse == cl.made /\ cl.status /\ clRet.func # "finishCL"

FilesCall(func, ret) ==
  /\ cl' = ret.self
  /\ disk' = ret.disk
  /\ clRet.n < MaxFilesCalls
  /\ clRet' = [NoCLCall EXCEPT !.func = func, !.err = ret.err,
                               !.n = clRet.n + 1]
  /\ UNCHANGED ads
  /\ CLIdleRest

ImageInsFiles ==
  /\ InUse /\ cl.imageInsCLdiskNames.some
  /\ \E type \in FileTypes :
       FilesCall("imageInsFiles", imageInsFiles(cl, disk, type))

RefInsFiles ==
  /\ InUse /\ cl.refInsCLdiskNames.some
  /\ \E type \in FileTypes :
       FilesCall("refInsFiles", refInsFiles(cl, disk, type))

ArrayInsFiles ==
  /\ InUse /\ cl.arrayInsCLdiskNames.some
  /\ \E type \in FileTypes :
       FilesCall("arrayInsFiles", arrayInsFiles(cl, disk, type))

ImageOutsFiles ==
  /\ InUse
  /\ \E type \in FileTypes :
       FilesCall("imageOutsFiles", imageOutsFiles(cl, ads, disk, type))

RefOutsFiles ==
  /\ InUse
  /\ \E type \in FileTypes :
       FilesCall("refOutsFiles", refOutsFiles(cl, ads, disk, type))

ArrayOutsFiles ==
  /\ InUse /\ cl.arrayOutsNames.some
  /\ \E type \in FileTypes :
       FilesCall("arrayOutsFiles", arrayOutsFiles(cl, disk, type))

\* the CL script writes the files it was asked for
RunCL ==
  /\ InUse
  /\ ~ (ExpectedOuts(cl) \subseteq disk)
  /\ disk' = disk \cup ExpectedOuts(cl)
  /\ clRet' = [NoCLCall EXCEPT !.func = "iraf", !.n = clRet.n]
  /\ UNCHANGED <<cl, ads>>
  /\ CLIdleRest

FinishCL ==
  /\ cl.made /\ clRet.func # "finishCL"
  /\ \E out \in OutputHeaders :
       LET ret == postCLloads(cl, disk, out)
       IN /\ disk' = ret.disk
          /\ clRet' = [func |-> ret.func, err |-> ret.err,
                       loaded |-> ret.loaded, n |-> clRet.n]
  /\ UNCHANGED <<cl, ads>>
  /\ CLIdleRest

NextCL ==
  \/ NewCLManager
  \/ ImageInsFiles
  \/ RefInsFiles
  \/ ArrayInsFiles
  \/ ImageOutsFiles
  \/ RefOutsFiles
  \/ ArrayOutsFiles
  \/ RunCL
  \/ FinishCL

SpecCL == InitCL /\ [][NextCL]_vars

\* the files the manager wrote or keeps the name of: the temporary copies
\* of the inputs, the list files and the outputs of IRAF
ManagedFiles(self) ==
  Range(self.imageInsCLdiskNames.v) \cup Range(self.refInsCLdiskNames.v)
    \cup Range(self.arrayInsCLdiskNames.v)
    \cup ({self.imageInsListName, self.refInsListName,
           self.arrayInsListName, self.imageOutsListName,
           self.refOutsListName, self.arrayOutsListName} \ {NoName})
    \cup ExpectedOuts(self)

Finished == clRet.func = "finishCL" /\ clRet.err = ""

C22_ObsmodeRemovedFromInputs ==
  Finished => \A i \in DOMAIN ads : "OBSMODE" \notin ads[i].keys

\* what holds instead of C22: every GMOS image handed to the manager
\* keeps OBSMODE after finishCL
C22_ObsmodeStaysOnInputs ==
  Finished =>
    \A i \in Range(cl.imageIns.v) \cup Range(cl.refIns.v) :
      ads[i].gmos => "OBSMODE" \in ads[i].keys

====
